---- MODULE Spec2Model ----
(***************************************************************************)
(* Evolution pipeline and skill store of the harness:                      *)
(*   scripts/harness-evolve.py  (proposals, apply, history, rollback)      *)
(*   hooks/capture-session.py   (skill extraction, save/merge)             *)
(* Files are modelled by their parsed content; text is modelled as         *)
(* sequences of one-character strings so that substring tests, case        *)
(* folding and replacement are computed as the code computes them.         *)
(***************************************************************************)
EXTENDS Integers, Sequences, FiniteSets, TLC

\* ---- bounds of the model ------------------------------------------------
MaxClock == 2        \* last clock tick the model explores
TicksPerSec == 2     \* clock ticks per wall-clock second
MaxProposals == 2    \* lines in proposals.jsonl
MaxHistory == 3      \* lines in history.jsonl
MaxSkills == 2       \* lines in skills.jsonl
MaxSessions == 1     \* captured sessions
MaxAdds == 3         \* captured sessions when only the session hook runs
MaxCaptures == 2     \* captured sessions next to the skill proposals
MaxCount == 2        \* times_used of a stored skill record
MaxStored == 4       \* skills of a stored collection that is searched
MaxLines == 3        \* lines of a skills file that holds corrupt lines
MaxMessages == 3     \* messages of a transcript
MaxHead == 2         \* --head
MaxTail == 2         \* --tail
MaxCompressions == 1 \* compressions that reach the digest
MaxSummaries == 3    \* summaries of a stored digest after the compressions on it
MaxProcs == 2        \* invocations that run as separate processes

\* ---- text ----------------------------------------------------------------
Lowers == <<"a","b","c","d","e","f","g","h","i","j","k","l","m","n","o","p","q","r","s","t","u","v","w","x","y","z">>
Uppers == <<"A","B","C","D","E","F","G","H","I","J","K","L","M","N","O","P","Q","R","S","T","U","V","W","X","Y","Z">>
Others == <<"0","1","2","3","4","5","6","7","8","9","_"," ","-",">",":">>
Alphabet == Lowers \o Uppers \o Others

\* str.lower() on one character
LowerOf == [c \in {Uppers[i] : i \in 1..Len(Uppers)} |->
              Lowers[CHOOSE i \in 1..Len(Uppers) : Uppers[i] = c]]

lower_char(c) == IF c \in DOMAIN LowerOf THEN LowerOf[c] ELSE c

\* str.lower()
lower(s) == [i \in 1..Len(s) |-> lower_char(s[i])]

\* str.replace(a, b) for one-character a and b
replace(s, a, b) == [i \in 1..Len(s) |-> IF s[i] = a THEN b ELSE s[i]]

\* the Python test `sub in s`
contains(sub, s) ==
  \E i \in 1..(Len(s) - Len(sub) + 1) : SubSeq(s, i, i + Len(sub) - 1) = sub

\* regex class \w: letters, digits and the underscore
WordChars == {Lowers[i] : i \in 1..Len(Lowers)} \cup {Uppers[i] : i \in 1..Len(Uppers)}
               \cup {"0","1","2","3","4","5","6","7","8","9","_"}

is_word(c) == c \in WordChars

\* the byte value of a character, up to renumbering
CodeOf == [c \in {Alphabet[i] : i \in 1..Len(Alphabet)} |->
             CHOOSE i \in 1..Len(Alphabet) : Alphabet[i] = c]

Code(c) == CodeOf[c]

\* number of distinct values of an 8-hex-digit digest prefix, scaled down
HashSpace == 65536

\* hashlib.md5(text).hexdigest()[:8]: a fixed function of the whole text
RECURSIVE md5_8(_)
md5_8(s) ==
  IF Len(s) = 0 THEN 7
  ELSE (md5_8(SubSeq(s, 1, Len(s) - 1)) * 31 + Code(s[Len(s)])) % HashSpace

\* dict.get(key) with the default None; every optional value of the model is
\* a tuple, and None is the empty one
None == <<>>
Get(d, k) == IF k \in DOMAIN d THEN d[k] ELSE None
\* the same for keys whose values are strings
GetS(d, k) == IF k \in DOMAIN d THEN d[k] ELSE "None"

\* ---- clock -----------------------------------------------------------------
\* strftime('%Y%m%d_%H%M%S'): the reading truncated to whole seconds
strftime(t) == t \div TicksPerSec

\* generate_proposal_id()
generate_proposal_id(t) == <<"prop", strftime(t)>>

\* datetime.now().isoformat(): the reading at full resolution
isoformat(t) == <<"iso", t>>

\* ---- state -----------------------------------------------------------------
VARIABLES
  now,          \* the wall clock, in ticks
  skillsFile,   \* memory/procedural/skills.jsonl: [exists, lines]
  proposals,    \* evolution/proposals.jsonl
  history,      \* evolution/history.jsonl
  backups,      \* evolution/backups: backup path -> content
  sessions,     \* number of session records in episodic/sessions
  last,         \* what the most recent invocation did and returned; out is
                \* what it printed besides the fixed text of its message
  pre,          \* skillsFile as it was before the most recent invocation
  pc,           \* where a skill_add apply that runs step by step stands
  cur,          \* that apply's proposal, backup path and pre-apply skillsFile
  digest,       \* memory/working/persistent-summary.json; the key points are
                \* held as a set: the file lists them in the iteration order of
                \* a Python set, and they are only ever read back into a set
  procs         \* the invocations that run as separate processes next to each
                \* other: where each stands and what it holds in memory

vars == <<now, skillsFile, proposals, history, backups, sessions, last, pre, pc, cur,
          digest, procs>>

NoFile == [exists |-> FALSE, lines |-> <<>>]
File(ls) == [exists |-> TRUE, lines |-> ls]

\* a line of a file that is no record the program wrote: text that is no JSON
\* ("not json"), a blank line ("blank"), bytes that are no UTF-8 text
\* ("undecodable"), or JSON that is no object ("scalar")
Corrupt(kind) == [raw |-> kind]

is_record(line) == "raw" \notin DOMAIN line

\* line.strip() is not empty and json.loads(line) returns
parses(line) == is_record(line) \/ line.raw = "scalar"

\* Path.read_text() returns: every byte of the file decodes
decodes(f) == \A i \in 1..Len(f.lines) : is_record(f.lines[i]) \/ f.lines[i].raw # "undecodable"

\* load_skills(): a missing file reads as no skills, and the lines that do
\* not parse are skipped
load_skills(f) == IF f.exists THEN SelectSeq(f.lines, parses) ELSE <<>>

Ret(op, id, dry, ok, msg, out) ==
  [op |-> op, id |-> id, dry |-> dry, ok |-> ok, msg |-> msg, out |-> out]

NoCur == [proposal |-> None, path |-> None, pre |-> NoFile]

\* the processes that run next to each other
Procs == 1..MaxProcs

\* a process that has not started: at is where it stands, held what it has read
\* into memory, overlapped whether another process was running when it started
NoRun ==
  [at |-> "new", op |-> "", proposal |-> None, skill |-> None, path |-> None,
   held |-> None, overlapped |-> FALSE, result |-> None]

NoProcs == [p \in Procs |-> NoRun]

\* load_persistent_summary() when there is no file
NoDigest ==
  [exists |-> FALSE, summaries |-> <<>>, accumulated_key_points |-> {},
   last_updated |-> None]

Init ==
  /\ pc = "idle"
  /\ cur = NoCur
  /\ digest = NoDigest
  /\ procs = NoProcs
  /\ now = 0
  /\ skillsFile = NoFile
  /\ proposals = <<>>
  /\ history = <<>>
  /\ backups = <<>>
  /\ sessions = 0
  /\ last = Ret("start", None, FALSE, TRUE, "", <<>>)
  /\ pre = NoFile

\* ---- analysis input (metrics/latest_analysis.json) -------------------------
s_auth == <<"a","u","t","h">>
s_unit_test == <<"u","n","i","t","-","t","e","s","t">>
s_routing_issue == <<"R","e","p","e","a","t","e","d"," ","s","u","b","o","p","t","i","m","a","l"," ","p","a","t","t","e","r","n",":"," ","B","a","s","h","-",">","G","r","e","p">>
s_bash_issue == <<"H","i","g","h"," ","B","a","s","h"," ","u","s","a","g","e">>
s_pattern == <<"p","a","t","t","e","r","n">>

Analysis(st, missed, issues, rate, recs) ==
  [present |-> TRUE, status |-> st, common_missed_patterns |-> missed,
   efficiency_issues |-> issues, success_rate |-> rate, recommendations |-> recs]

\* load_analysis() when the file is missing
NoAnalysis ==
  [present |-> FALSE, status |-> "", common_missed_patterns |-> <<>>,
   efficiency_issues |-> <<>>, success_rate |-> 100, recommendations |-> <<>>]

HighRec == [priority |-> 1, severity |-> "high", issue |-> "Low task success rate"]
LowRec == [priority |-> 2, severity |-> "low", issue |-> "Repeated queries"]

Analyses ==
  { NoAnalysis,
    Analysis("no_data", <<>>, <<>>, 100, <<>>),
    Analysis("ok", << <<s_auth, 3>>, <<s_unit_test, 2>> >>, <<>>, 100, <<LowRec>>),
    Analysis("ok", <<>>, <<>>, 65, <<HighRec>>),
    Analysis("ok", <<>>, << [issue |-> s_bash_issue, count |-> 0],
                            [issue |-> s_routing_issue, count |-> 3] >>, 50, <<>>) }

\* ---- proposals ---------------------------------------------------------------
s_auto_dash == <<"a","u","t","o","-">>
s_auto_descr == <<"A","u","t","o","-","g","e","n","e","r","a","t","e","d"," ","s","k","i","l","l"," ","f","o","r",":"," ">>

\* the loop that looks for a similar skill had it compared pattern and
\* trigger for equality
similar_skill_exists_equal(pattern, skills) ==
  \E i \in 1..Len(skills) :
    \E j \in 1..Len(skills[i].triggers) :
      lower(pattern) = lower(skills[i].triggers[j])

\* propose_skill_from_pattern: the loop that looks for a similar skill
similar_skill_exists(pattern, skills) ==
  \E i \in 1..Len(skills) :
    \E j \in 1..Len(skills[i].triggers) :
      contains(lower(pattern), lower(skills[i].triggers[j]))

\* propose_skill_from_pattern had it left the triggers of the skill empty
propose_skill_without_triggers(pattern, count) ==
  [type |-> "skill_add",
   data |-> [skill_id |-> <<"skill_auto", md5_8(pattern)>>,
             name |-> s_auto_dash \o replace(pattern, " ", "-"),
             description |-> s_auto_descr \o pattern,
             triggers |-> <<>>,
             prerequisites |-> <<>>,
             key_steps |-> <<"Step 1: TBD">>,
             tools_typically_used |-> <<"Read", "Edit", "Bash">>,
             estimated_tokens |-> 2000,
             success_rate |-> <<0, 1>>,
             times_used |-> 0,
             last_used |-> None,
             created_from_session |-> <<"auto_evolution">>],
   reason |-> <<"missed", pattern, count>>]

\* propose_skill_from_pattern: the proposal it returns otherwise
propose_skill_from_pattern(pattern, count) ==
  [type |-> "skill_add",
   data |-> [skill_id |-> <<"skill_auto", md5_8(pattern)>>,
             name |-> s_auto_dash \o replace(pattern, " ", "-"),
             description |-> s_auto_descr \o pattern,
             triggers |-> <<pattern, replace(pattern, "-", " ")>>,
             prerequisites |-> <<>>,
             key_steps |-> <<"Step 1: TBD">>,
             tools_typically_used |-> <<"Read", "Edit", "Bash">>,
             estimated_tokens |-> 2000,
             success_rate |-> <<0, 1>>,
             times_used |-> 0,
             last_used |-> None,
             created_from_session |-> <<"auto_evolution">>],
   reason |-> <<"missed", pattern, count>>]

\* propose_routing_update
propose_routing_update(tool, alternative, count) ==
  [type |-> "routing_update",
   data |-> [from_tool |-> tool, to_tool |-> alternative, pattern |-> count],
   reason |-> <<"suggested", alternative, count, tool>>]

\* re.search(r'(\w+)->(\w+)', s): the position of the "->" of the leftmost
\* match, 0 when there is none
arrow_at(s, j) ==
  /\ j > 1 /\ j + 2 <= Len(s)
  /\ s[j] = "-" /\ s[j + 1] = ">"
  /\ is_word(s[j - 1]) /\ is_word(s[j + 2])

search_arrow(s) ==
  IF \E j \in 1..Len(s) : arrow_at(s, j)
  THEN CHOOSE j \in 1..Len(s) : arrow_at(s, j) /\ \A k \in 1..(j - 1) : ~arrow_at(s, k)
  ELSE 0

\* match.groups(): the longest runs of \w on both sides of the "->"
group1(s, j) ==
  LET a == CHOOSE i \in 1..(j - 1) :
             /\ \A k \in i..(j - 1) : is_word(s[k])
             /\ (i = 1 \/ ~is_word(s[i - 1]))
  IN SubSeq(s, a, j - 1)

group2(s, j) ==
  LET b == CHOOSE i \in (j + 2)..Len(s) :
             /\ \A k \in (j + 2)..i : is_word(s[k])
             /\ (i = Len(s) \/ ~is_word(s[i + 1]))
  IN SubSeq(s, j + 2, b)

\* generate_proposals, part 1: skills for missed patterns
RECURSIVE skill_proposals(_, _)
skill_proposals(missed, skills) ==
  IF Len(missed) = 0 THEN <<>>
  ELSE LET pattern == Head(missed)[1]
           count == Head(missed)[2]
       IN (IF count >= 3 /\ ~similar_skill_exists(pattern, skills)
           THEN <<propose_skill_from_pattern(pattern, count)>>
           ELSE <<>>) \o skill_proposals(Tail(missed), skills)

\* generate_proposals, part 2, had it not asked for the word "pattern"
RECURSIVE routing_proposals_any_issue(_)
routing_proposals_any_issue(issues) ==
  IF Len(issues) = 0 THEN <<>>
  ELSE LET issue == Head(issues).issue
           j == search_arrow(issue)
       IN (IF j # 0
           THEN <<propose_routing_update(group1(issue, j), group2(issue, j),
                                         Head(issues).count)>>
           ELSE <<>>) \o routing_proposals_any_issue(Tail(issues))

\* generate_proposals, part 2: routing updates
RECURSIVE routing_proposals(_)
routing_proposals(issues) ==
  IF Len(issues) = 0 THEN <<>>
  ELSE LET issue == Head(issues).issue
           j == search_arrow(issue)
       IN (IF contains(s_pattern, lower(issue)) /\ j # 0
           THEN <<propose_routing_update(group1(issue, j), group2(issue, j),
                                         Head(issues).count)>>
           ELSE <<>>) \o routing_proposals(Tail(issues))

\* generate_proposals, part 3: threshold adjustment
threshold_proposals(success_rate) ==
  IF success_rate < 60
  THEN << [type |-> "threshold_adjust",
           data |-> [metric |-> "success_rate_low", current_value |-> 70,
                     suggested_value |-> 60],
           reason |-> <<"below", success_rate>>] >>
  ELSE <<>>

\* generate_proposals, part 4: manual review of high-severity recommendations
RECURSIVE review_proposals(_)
review_proposals(recs) ==
  IF Len(recs) = 0 THEN <<>>
  ELSE (IF Head(recs).severity = "high"
        THEN << [type |-> "manual_review", data |-> Head(recs),
                 reason |-> <<"High severity issue requiring manual review">>] >>
        ELSE <<>>) \o review_proposals(Tail(recs))

\* the proposals of one run, before they get their id
candidates(analysis, skills) ==
  skill_proposals(analysis.common_missed_patterns, skills)
    \o routing_proposals(analysis.efficiency_issues)
    \o threshold_proposals(analysis.success_rate)
    \o review_proposals(analysis.recommendations)

no_proposals(analysis) == ~analysis.present \/ analysis.status = "no_data"

\* number of proposals one run generates, each reading the clock for its id
generated_count(analysis, skills) ==
  IF no_proposals(analysis) THEN 1 ELSE Len(candidates(analysis, skills))

\* generate_proposals(): ts[k] is the clock reading of the k-th proposal
generate_proposals(analysis, skills, ts) ==
  IF no_proposals(analysis)
  THEN << [id |-> generate_proposal_id(ts[1]), type |-> "info",
           message |-> "Insufficient data for proposals"] >>
  ELSE LET c == candidates(analysis, skills)
       IN [k \in 1..Len(c) |->
             [id |-> generate_proposal_id(ts[k]),
              timestamp |-> isoformat(ts[k]),
              status |-> "pending",
              type |-> c[k].type,
              data |-> c[k].data,
              reason |-> c[k].reason]]

\* load_proposals() / save_proposal(): the file is its sequence of records
save_proposal(props, p) == Append(props, p)

\* main, --propose: only proposals whose status is pending are saved
RECURSIVE save_pending(_, _)
save_pending(props, generated) ==
  IF Len(generated) = 0 THEN props
  ELSE save_pending(IF GetS(Head(generated), "status") = "pending"
                    THEN save_proposal(props, Head(generated))
                    ELSE props,
                    Tail(generated))

\* the clock readings of n successive calls of an invocation that starts at
\* t0: the clock does not go back
Readings(n, t0) ==
  { ts \in [1..n -> t0..MaxClock] :
      /\ n > 0 => ts[1] = t0
      /\ \A i \in 1..(n - 1) : ts[i] <= ts[i + 1] }

Propose(analysis, ts) ==
  LET generated == generate_proposals(analysis, load_skills(skillsFile), ts)
      saved == save_pending(proposals, generated)
  IN /\ Len(saved) <= MaxProposals
     /\ proposals' = saved
     /\ now' = IF Len(ts) = 0 THEN now ELSE ts[Len(ts)]
     /\ last' = Ret("propose", None, FALSE, TRUE, "", generated)
     /\ pre' = skillsFile
     /\ UNCHANGED <<skillsFile, history, backups, sessions, pc, cur, digest, procs>>

\* ---- history and backups -----------------------------------------------------
\* save_history() had it opened the file in write mode
save_history_truncating(hist, entry) == <<entry>>

\* save_history(): the file is opened in append mode
save_history(hist, entry) == Append(hist, entry)

\* load_history() had it left out the records of rollbacks
load_history_without_rollbacks(hist) ==
  SelectSeq(hist, LAMBDA e : e.type # "rollback")

\* load_history()
load_history(hist) == hist

BackupPath(t) == <<"skills.jsonl", strftime(t), "bak">>

\* backup_file() had it kept a backup that already has the name
backup_file_keeping_first(file, bk, t) ==
  IF ~file.exists
  THEN [path |-> None, backups |-> bk]
  ELSE [path |-> BackupPath(t),
        backups |-> [q \in DOMAIN bk \cup {BackupPath(t)} |->
                       IF q \in DOMAIN bk THEN bk[q] ELSE file.lines]]

\* backup_file(): None for a missing file, else a copy named by the second
backup_file(file, bk, t) ==
  IF ~file.exists
  THEN [path |-> None, backups |-> bk]
  ELSE [path |-> BackupPath(t),
        backups |-> [q \in DOMAIN bk \cup {BackupPath(t)} |->
                       IF q = BackupPath(t) THEN file.lines ELSE bk[q]]]

\* update_proposal_status(): rewrites the file, every record with the id
update_proposal_status(props, proposal_id, status, t) ==
  [k \in 1..Len(props) |->
     IF props[k].id = proposal_id
     THEN [f \in DOMAIN props[k] \cup {"updated_at"} |->
             IF f = "status" THEN status
             ELSE IF f = "updated_at" THEN isoformat(t)
             ELSE props[k][f]]
     ELSE props[k]]

\* the durable stores an invocation works on, and what it returns
Stores == [skills |-> skillsFile, backups |-> backups, history |-> history,
           proposals |-> proposals]

\* msg is the fixed text of the returned message, arg the values formatted
\* into it
ResultArg(st, ok, msg, arg) ==
  [skills |-> st.skills, backups |-> st.backups, history |-> st.history,
   proposals |-> st.proposals, ok |-> ok, msg |-> msg, arg |-> arg]

Result(st, ok, msg) == ResultArg(st, ok, msg, None)

\* apply_skill_add: the history entry of an added skill
skill_add_entry(proposal, backup_path, t) ==
  [timestamp |-> isoformat(t), proposal_id |-> proposal.id,
   type |-> "skill_add", skill_id |-> proposal.data.skill_id,
   backup |-> backup_path]

\* apply_skill_add(): backup, append the skill, history entry, status
apply_skill_add(st, proposal, t) ==
  LET b == backup_file(st.skills, st.backups, t)
      skill == proposal.data
  IN [skills |-> File(Append(st.skills.lines, skill)),
      backups |-> b.backups,
      history |-> save_history(st.history, skill_add_entry(proposal, b.path, t)),
      proposals |-> update_proposal_status(st.proposals, proposal.id, "applied", t),
      ok |-> TRUE, msg |-> "Added skill", arg |-> <<skill.name>>]

\* apply_routing_update(): only recorded
apply_routing_update(st, proposal, t) ==
  [skills |-> st.skills,
   backups |-> st.backups,
   history |-> save_history(st.history,
                 [timestamp |-> isoformat(t), proposal_id |-> proposal.id,
                  type |-> "routing_update", data |-> proposal.data,
                  note |-> "Routing update recorded"]),
   proposals |-> update_proposal_status(st.proposals, proposal.id, "recorded", t),
   ok |-> TRUE, msg |-> "Routing update recorded",
   arg |-> <<proposal.data.from_tool, proposal.data.to_tool>>]

\* apply_threshold_adjust(): only recorded
apply_threshold_adjust(st, proposal, t) ==
  [skills |-> st.skills,
   backups |-> st.backups,
   history |-> save_history(st.history,
                 [timestamp |-> isoformat(t), proposal_id |-> proposal.id,
                  type |-> "threshold_adjust", data |-> proposal.data,
                  note |-> "Threshold adjustment recorded"]),
   proposals |-> update_proposal_status(st.proposals, proposal.id, "recorded", t),
   ok |-> TRUE, msg |-> "Threshold adjustment recorded",
   arg |-> <<proposal.data.metric>>]

\* apply_proposal: the first proposal of the file with the id, 0 if none
find_proposal(props, proposal_id) ==
  IF \E k \in 1..Len(props) : props[k].id = proposal_id
  THEN CHOOSE k \in 1..Len(props) :
         /\ props[k].id = proposal_id
         /\ \A m \in 1..(k - 1) : props[m].id # proposal_id
  ELSE 0

\* apply_proposal had it no status test
already_applied_never(proposal) == FALSE

\* apply_proposal: the status test that refuses a proposal
already_applied(proposal) == proposal.status = "applied"

\* apply_proposal() had it marked a manual review item as rejected when it
\* refuses it
apply_proposal_rejecting(st, proposal_id, dry_run, t) ==
  LET k == find_proposal(st.proposals, proposal_id)
      proposal == st.proposals[k]
      rejected == [st EXCEPT !.proposals =
                     update_proposal_status(st.proposals, proposal_id, "rejected", t)]
  IN IF k = 0 THEN ResultArg(st, FALSE, "not found", <<proposal_id>>)
     ELSE IF already_applied(proposal)
          THEN ResultArg(st, FALSE, "already applied", <<proposal_id>>)
     ELSE IF dry_run
          THEN ResultArg(st, TRUE, "DRY RUN", <<proposal.type, proposal.reason>>)
     ELSE IF proposal.type = "skill_add" THEN apply_skill_add(st, proposal, t)
     ELSE IF proposal.type = "routing_update" THEN apply_routing_update(st, proposal, t)
     ELSE IF proposal.type = "threshold_adjust" THEN apply_threshold_adjust(st, proposal, t)
     ELSE IF proposal.type = "manual_review"
          THEN Result(rejected, FALSE, "Manual review items cannot be auto-applied")
     ELSE ResultArg(st, FALSE, "Unknown proposal type", <<proposal.type>>)

\* apply_proposal()
apply_proposal(st, proposal_id, dry_run, t) ==
  LET k == find_proposal(st.proposals, proposal_id)
      proposal == st.proposals[k]
  IN IF k = 0 THEN ResultArg(st, FALSE, "not found", <<proposal_id>>)
     ELSE IF already_applied(proposal)
          THEN ResultArg(st, FALSE, "already applied", <<proposal_id>>)
     ELSE IF dry_run
          THEN ResultArg(st, TRUE, "DRY RUN", <<proposal.type, proposal.reason>>)
     ELSE IF proposal.type = "skill_add" THEN apply_skill_add(st, proposal, t)
     ELSE IF proposal.type = "routing_update" THEN apply_routing_update(st, proposal, t)
     ELSE IF proposal.type = "threshold_adjust" THEN apply_threshold_adjust(st, proposal, t)
     ELSE IF proposal.type = "manual_review"
          THEN Result(st, FALSE, "Manual review items cannot be auto-applied")
     ELSE ResultArg(st, FALSE, "Unknown proposal type", <<proposal.type>>)

\* the rollback record had it kept the backup under the key 'backup'
rollback_entry_with_backup(lastEntry, t) ==
  [timestamp |-> isoformat(t), type |-> "rollback",
   rolled_back |-> Get(lastEntry, "proposal_id"),
   backup |-> Get(lastEntry, "backup")]

\* the rollback record had it named the skill instead of the proposal
rollback_entry_naming_skill(lastEntry, t) ==
  [timestamp |-> isoformat(t), type |-> "rollback",
   rolled_back |-> Get(lastEntry, "skill_id"),
   restored_from |-> Get(lastEntry, "backup")]

\* rollback_last: the history entry that records a rollback
rollback_entry(lastEntry, t) ==
  [timestamp |-> isoformat(t), type |-> "rollback",
   rolled_back |-> Get(lastEntry, "proposal_id"),
   restored_from |-> Get(lastEntry, "backup")]

\* rollback_last() had it taken an entry without a backup reference to mean
\* that the collection did not exist before, and removed the file
rollback_last_removing(st, t) ==
  LET hist == load_history(st.history)
      lastEntry == hist[Len(hist)]
      backup_path == Get(lastEntry, "backup")
  IN IF Len(hist) = 0 THEN Result(st, FALSE, "No history to rollback")
     ELSE IF lastEntry.type # "skill_add"
          THEN ResultArg(st, FALSE, "Rollback not supported", <<lastEntry.type>>)
     ELSE [skills |-> IF backup_path \in DOMAIN st.backups
                      THEN File(st.backups[backup_path]) ELSE NoFile,
           backups |-> st.backups,
           history |-> save_history(st.history, rollback_entry(lastEntry, t)),
           proposals |-> st.proposals,
           ok |-> TRUE, msg |-> "Rolled back",
           arg |-> <<lastEntry.type, lastEntry.timestamp>>]

\* rollback_last() had it set the reverted proposal back to pending
rollback_last_reopening(st, t) ==
  LET hist == load_history(st.history)
      lastEntry == hist[Len(hist)]
      backup_path == Get(lastEntry, "backup")
  IN IF Len(hist) = 0 THEN Result(st, FALSE, "No history to rollback")
     ELSE IF backup_path = None \/ backup_path \notin DOMAIN st.backups
          THEN Result(st, FALSE, "No backup available for rollback")
     ELSE IF lastEntry.type # "skill_add"
          THEN ResultArg(st, FALSE, "Rollback not supported", <<lastEntry.type>>)
     ELSE [skills |-> File(st.backups[backup_path]),
           backups |-> st.backups,
           history |-> save_history(st.history, rollback_entry(lastEntry, t)),
           proposals |-> update_proposal_status(st.proposals, lastEntry.proposal_id,
                                                "pending", t),
           ok |-> TRUE, msg |-> "Rolled back",
           arg |-> <<lastEntry.type, lastEntry.timestamp>>]

\* rollback_last()
rollback_last(st, t) ==
  LET hist == load_history(st.history)
      lastEntry == hist[Len(hist)]
      backup_path == Get(lastEntry, "backup")
  IN IF Len(hist) = 0 THEN Result(st, FALSE, "No history to rollback")
     ELSE IF backup_path = None \/ backup_path \notin DOMAIN st.backups
          THEN Result(st, FALSE, "No backup available for rollback")
     ELSE IF lastEntry.type # "skill_add"
          THEN ResultArg(st, FALSE, "Rollback not supported", <<lastEntry.type>>)
     ELSE [skills |-> File(st.backups[backup_path]),
           backups |-> st.backups,
           history |-> save_history(st.history, rollback_entry(lastEntry, t)),
           proposals |-> st.proposals,
           ok |-> TRUE, msg |-> "Rolled back",
           arg |-> <<lastEntry.type, lastEntry.timestamp>>]

\* main, --apply-all: the pending proposals it hands to apply_proposal
to_apply(props) ==
  SelectSeq(props, LAMBDA p : p.status = "pending"
                              /\ p.type \notin {"manual_review", "info"})

\* main, --apply-all: the loop; ts[k] is the clock reading of the k-th call
RECURSIVE apply_all(_, _, _, _, _)
apply_all(st, pending, dry_run, ts, results) ==
  IF Len(pending) = 0
  THEN [skills |-> st.skills, backups |-> st.backups, history |-> st.history,
        proposals |-> st.proposals, results |-> results]
  ELSE LET r == apply_proposal(st, Head(pending).id, dry_run, Head(ts))
       IN apply_all(r, Tail(pending), dry_run, Tail(ts),
                    Append(results, [id |-> Head(pending).id, success |-> r.ok,
                                     message |-> r.msg]))

\* the stores stay within the bounds of the model
Within(r) ==
  /\ Len(r.history) <= MaxHistory
  /\ Len(r.skills.lines) <= MaxSkills

ProposalIds == { generate_proposal_id(t) : t \in 0..MaxClock }

\* main, --apply <id> [--dry-run]
Apply(proposal_id, dry_run) ==
  LET r == apply_proposal(Stores, proposal_id, dry_run, now)
  IN /\ Within(r)
     /\ skillsFile' = r.skills
     /\ backups' = r.backups
     /\ history' = r.history
     /\ proposals' = r.proposals
     /\ last' = Ret("apply", proposal_id, dry_run, r.ok, r.msg, r.arg)
     /\ pre' = skillsFile
     /\ UNCHANGED <<now, sessions, pc, cur, digest, procs>>

\* main, --apply-all [--dry-run]
ApplyAll(dry_run, ts) ==
  LET r == apply_all(Stores, to_apply(proposals), dry_run, ts, <<>>)
  IN /\ Within(r)
     /\ skillsFile' = r.skills
     /\ backups' = r.backups
     /\ history' = r.history
     /\ proposals' = r.proposals
     /\ now' = IF Len(ts) = 0 THEN now ELSE ts[Len(ts)]
     /\ last' = Ret("apply_all", None, dry_run, TRUE, "", r.results)
     /\ pre' = skillsFile
     /\ UNCHANGED <<sessions, pc, cur, digest, procs>>

\* main, --rollback
Rollback ==
  LET r == rollback_last(Stores, now)
  IN /\ Within(r)
     /\ skillsFile' = r.skills
     /\ backups' = r.backups
     /\ history' = r.history
     /\ proposals' = r.proposals
     /\ last' = Ret("rollback", None, FALSE, r.ok, r.msg, r.arg)
     /\ pre' = skillsFile
     /\ UNCHANGED <<now, sessions, pc, cur, digest, procs>>

\* ---- skill store (hooks/capture-session.py) --------------------------------------
s_fix_auth_bug == <<"f","i","x"," ","a","u","t","h"," ","b","u","g">>
s_unknown_task == <<"U","n","k","n","o","w","n"," ","t","a","s","k">>
s_too_short == <<"t","o","o"," ","s","h","o","r","t">>

\* working.get('current_task', 'Unknown task') over the captured sessions
Tasks == {s_fix_auth_bug, s_unknown_task, s_too_short, <<>>}

keywords ==
  << <<"a","u","t","h">>, <<"t","e","s","t">>, <<"a","p","i">>,
     <<"d","a","t","a","b","a","s","e">>, <<"f","i","x">>, <<"a","d","d">>,
     <<"c","r","e","a","t","e">>, <<"i","m","p","l","e","m","e","n","t">>,
     <<"r","e","f","a","c","t","o","r">>, <<"u","p","d","a","t","e">>,
     <<"d","e","l","e","t","e">>, <<"r","e","m","o","v","e">>,
     <<"c","o","m","p","o","n","e","n","t">>, <<"h","o","o","k">>,
     <<"m","i","d","d","l","e","w","a","r","e">>, <<"c","o","n","f","i","g">>,
     <<"d","e","p","l","o","y">> >>

\* str.split(): the maximal runs of non-blank characters
RECURSIVE split_from(_, _, _)
split_from(s, word, out) ==
  IF Len(s) = 0 THEN (IF Len(word) = 0 THEN out ELSE Append(out, word))
  ELSE IF Head(s) = " "
       THEN split_from(Tail(s), <<>>, IF Len(word) = 0 THEN out ELSE Append(out, word))
       ELSE split_from(Tail(s), Append(word, Head(s)), out)

split(s) == split_from(s, <<>>, <<>>)

\* s[:n]
prefix(s, n) == SubSeq(s, 1, IF Len(s) < n THEN Len(s) ELSE n)

\* extract_skill: the trigger keywords of a task
extract_triggers(task) ==
  LET task_lower == lower(task)
      found == SelectSeq(keywords, LAMBDA kw : contains(kw, task_lower))
  IN IF Len(found) = 0 THEN prefix(split(task_lower), 3) ELSE found

\* extract_skill had it not looked at the length of the task
extractable_any_length(outcome, task) == outcome = "success"

\* extract_skill: whether a skill is extracted at all
extractable(outcome, task) ==
  outcome = "success" /\ Len(task) # 0 /\ Len(task) >= 10

\* extract_skill() had it hashed the session id together with the task
extract_skill_hashing_session(task, session_id, t) ==
  [skill_id |-> <<"skill", md5_8(Append(task, Others[session_id[2] + 1]))>>,
   name |-> lower(replace(prefix(task, 50), " ", "-")),
   description |-> task,
   triggers |-> extract_triggers(task),
   tools_typically_used |-> <<"Read", "Edit">>,
   estimated_tokens |-> 1200,
   success_rate |-> <<1, 1>>,
   times_used |-> 1,
   last_used |-> isoformat(t),
   created_from_session |-> session_id,
   key_steps |-> <<>>]

\* extract_skill: the skill record
extract_skill(task, session_id, t) ==
  [skill_id |-> <<"skill", md5_8(task)>>,
   name |-> lower(replace(prefix(task, 50), " ", "-")),
   description |-> task,
   triggers |-> extract_triggers(task),
   tools_typically_used |-> <<"Read", "Edit">>,
   estimated_tokens |-> 1200,
   success_rate |-> <<1, 1>>,
   times_used |-> 1,
   last_used |-> isoformat(t),
   created_from_session |-> session_id,
   key_steps |-> <<>>]

\* a fraction in lowest terms
RECURSIVE gcd(_, _)
gcd(a, b) == IF b = 0 THEN a ELSE gcd(b, a % b)

Fraction(n, d) == <<n \div gcd(n, d), d \div gcd(n, d)>>

\* the update of an existing skill had it divided the sum by the number of
\* earlier uses
merge_skill_dividing_by_count(existing, skill) ==
  LET times_used == existing.times_used + 1
      rate == existing.success_rate
  IN [existing EXCEPT
        !.times_used = times_used,
        !.last_used = skill.last_used,
        !.success_rate = Fraction(rate[1] * times_used + rate[2],
                                  rate[2] * times_used)]

\* the update of an existing skill had it kept the incoming record
merge_skill_replacing(existing, skill) ==
  [skill EXCEPT !.times_used = existing.times_used + 1]

\* save_skill: the update of an existing skill; times_used is incremented
\* first, and the new rate is computed from the incremented value
merge_skill(existing, skill) ==
  LET times_used == existing.times_used + 1
      rate == existing.success_rate
  IN [existing EXCEPT
        !.times_used = times_used,
        !.last_used = skill.last_used,
        !.success_rate = Fraction(rate[1] * times_used + rate[2],
                                  rate[2] * (times_used + 1))]

\* save_skill() had it written only the record it was given
save_skill_overwriting(file, skill) == File(<<skill>>)

\* save_skill(): update the first record with the skill_id or append, and
\* write all records back
save_skill(file, skill) ==
  LET existing_skills == load_skills(file)
      hit == { i \in 1..Len(existing_skills) :
                 Get(existing_skills[i], "skill_id") = skill.skill_id }
  IN IF hit = {}
     THEN File(Append(existing_skills, skill))
     ELSE LET i == CHOOSE i \in hit : \A m \in hit : i <= m
          IN File([existing_skills EXCEPT ![i] = merge_skill(existing_skills[i], skill)])

\* save_skill() raises: the file does not decode, or existing.get() is called
\* on a loaded line that is no object before a record with the skill_id is found
save_skill_raises(file, skill) ==
  LET existing_skills == load_skills(file)
      hit == { i \in 1..Len(existing_skills) :
                 Get(existing_skills[i], "skill_id") = skill.skill_id }
  IN \/ ~decodes(file)
     \/ \E i \in 1..Len(existing_skills) :
          /\ ~is_record(existing_skills[i])
          /\ \A h \in hit : i < h

\* get_session_id(): the sessions of the day are numbered
get_session_id(n) == <<"session", n + 1>>

\* capture_session(): the outcome is always recorded as success
CaptureSession(task) ==
  LET session_id == get_session_id(sessions)
      outcome == "success"
      skill == extract_skill(task, session_id, now)
      raises == extractable(outcome, task) /\ save_skill_raises(skillsFile, skill)
      saved == IF extractable(outcome, task) /\ ~raises
               THEN save_skill(skillsFile, skill)
               ELSE skillsFile
  IN /\ Len(saved.lines) <= MaxSkills
     /\ sessions' = sessions + 1
     /\ skillsFile' = saved
     /\ last' = IF raises
                THEN Ret("capture", None, FALSE, FALSE, "Session capture error", <<>>)
                ELSE Ret("capture", None, FALSE, TRUE,
                         IF extractable(outcome, task) THEN "Skill extracted" ELSE "", <<>>)
     /\ pre' = skillsFile
     /\ UNCHANGED <<now, proposals, history, backups, pc, cur, digest, procs>>

\* time passes between and during invocations
Tick ==
  /\ now < MaxClock
  /\ now' = now + 1
  /\ UNCHANGED <<skillsFile, proposals, history, backups, sessions, last, pre, pc, cur, digest, procs>>

\* ---- the invocations of the evolution pipeline and the session hook ------------
DoPropose ==
  \E analysis \in Analyses :
    \E ts \in Readings(generated_count(analysis, load_skills(skillsFile)), now) :
      Propose(analysis, ts)

DoApply == \E proposal_id \in ProposalIds, dry_run \in BOOLEAN : Apply(proposal_id, dry_run)

DoApplyAll ==
  \E dry_run \in BOOLEAN :
    \E ts \in Readings(Len(to_apply(proposals)), now) : ApplyAll(dry_run, ts)

DoCapture == sessions < MaxSessions /\ \E task \in Tasks : CaptureSession(task)

Next ==
  \/ Tick
  \/ DoPropose
  \/ DoApply
  \/ DoApplyAll
  \/ Rollback
  \/ DoCapture

Spec == Init /\ [][Next]_vars

\* ---- apply_skill_add step by step ------------------------------------------------
\* no skill_add apply is under way
Idle == pc \in {"idle", "stopped"}

\* apply_proposal() up to the dispatch to apply_skill_add()
ApplyStart(proposal_id) ==
  LET k == find_proposal(proposals, proposal_id)
  IN /\ Idle
     /\ k # 0
     /\ ~already_applied(proposals[k])
     /\ proposals[k].type = "skill_add"
     /\ Len(history) < MaxHistory
     /\ Len(skillsFile.lines) < MaxSkills
     /\ pc' = "backup"
     /\ cur' = [proposal |-> proposals[k], path |-> None, pre |-> skillsFile]
     /\ pre' = skillsFile
     /\ UNCHANGED <<now, skillsFile, proposals, history, backups, sessions, last, digest, procs>>

\* backup_path = backup_file(skills_file)
StepBackup ==
  LET b == backup_file(skillsFile, backups, now)
  IN /\ pc = "backup"
     /\ backups' = b.backups
     /\ cur' = [cur EXCEPT !.path = b.path]
     /\ pc' = "append"
     /\ UNCHANGED <<now, skillsFile, proposals, history, sessions, last, pre, digest, procs>>

\* the skill is written to the file opened in append mode
StepAppend ==
  /\ pc = "append"
  /\ skillsFile' = File(Append(skillsFile.lines, cur.proposal.data))
  /\ pc' = "history"
  /\ UNCHANGED <<now, proposals, history, backups, sessions, last, pre, cur, digest, procs>>

\* save_history(...)
StepHistory ==
  /\ pc = "history"
  /\ history' = save_history(history, skill_add_entry(cur.proposal, cur.path, now))
  /\ pc' = "status"
  /\ UNCHANGED <<now, skillsFile, proposals, backups, sessions, last, pre, cur, digest, procs>>

\* update_proposal_status(id, 'applied') and the return
StepStatus ==
  /\ pc = "status"
  /\ proposals' = update_proposal_status(proposals, cur.proposal.id, "applied", now)
  /\ pc' = "idle"
  /\ last' = Ret("apply", cur.proposal.id, FALSE, TRUE, "Added skill",
                 <<cur.proposal.data.name>>)
  /\ UNCHANGED <<now, skillsFile, history, backups, sessions, pre, cur, digest, procs>>

\* the process ends before apply_skill_add() has returned
Stop ==
  /\ ~Idle
  /\ pc' = "stopped"
  /\ last' = Ret("apply", cur.proposal.id, FALSE, FALSE, "stopped", <<>>)
  /\ UNCHANGED <<now, skillsFile, proposals, history, backups, sessions, pre, cur, digest, procs>>

DoApplyStart == \E proposal_id \in ProposalIds : ApplyStart(proposal_id)

\* the other invocations run between, not during, the steps of an apply
NextSteps ==
  \/ Tick
  \/ Idle /\ DoPropose
  \/ Idle /\ DoCapture
  \/ Idle /\ Rollback
  \/ DoApplyStart
  \/ StepBackup
  \/ StepAppend
  \/ StepHistory
  \/ StepStatus
  \/ Stop

SpecSteps == Init /\ [][NextSteps]_vars

\* ---- the session hook alone ----------------------------------------------------------
DoAdd == sessions < MaxAdds /\ \E task \in Tasks : CaptureSession(task)

NextStore ==
  \/ Tick
  \/ DoAdd

SpecStore == Init /\ [][NextStore]_vars

\* ---- the session hook and the skill proposals of the pipeline ------------------------
\* the analyses whose proposals add skills
SkillAnalyses == { a \in Analyses : Len(a.common_missed_patterns) > 0 }

DoProposeSkills ==
  \E analysis \in SkillAnalyses :
    \E ts \in Readings(generated_count(analysis, load_skills(skillsFile)), now) :
      Propose(analysis, ts)

DoCaptureSkills == sessions < MaxCaptures /\ \E task \in Tasks : CaptureSession(task)

NextSkills ==
  \/ Tick
  \/ DoCaptureSkills
  \/ DoProposeSkills
  \/ DoApply
  \/ Rollback

SpecSkills == Init /\ [][NextSkills]_vars

\* ---- the session hook on a stored skill collection ----------------------------------
\* save_skill reads success_rate and times_used from the stored record,
\* whatever they are: the rates and counts of the records it is run on
StoredRates == {<<0, 1>>, <<1, 2>>, <<1, 1>>}

StoredCounts == 0..MaxCount

\* a skill collection of one record, as save_skill reads it
StoredSkills ==
  { [extract_skill(task, get_session_id(0), 0) EXCEPT
       !.success_rate = rate, !.times_used = count] :
      task \in {tk \in Tasks : extractable("success", tk)},
      rate \in StoredRates, count \in StoredCounts }

InitMerge ==
  /\ pc = "idle"
  /\ cur = NoCur
  /\ digest = NoDigest
  /\ procs = NoProcs
  /\ now = 0
  /\ skillsFile \in {File(<<skill>>) : skill \in StoredSkills}
  /\ proposals = <<>>
  /\ history = <<>>
  /\ backups = <<>>
  /\ sessions = 0
  /\ last = Ret("start", None, FALSE, TRUE, "", <<>>)
  /\ pre = NoFile

NextMerge ==
  \/ Tick
  \/ DoAdd

SpecMerge == InitMerge /\ [][NextMerge]_vars

\* ---- generate_proposals on analyses of any content --------------------------------
s_know == <<"k","n","o","w">>
s_switch_issue == <<"F","r","e","q","u","e","n","t"," ","B","a","s","h","-",">","G","r","e","p"," ","s","w","i","t","c","h">>
s_capital_issue == <<"P","a","t","t","e","r","n",":"," ","R","e","a","d","-",">","G","l","o","b">>

\* latest_analysis.json is read as it is found: missed patterns next to stored
\* triggers that contain them, and issues with and without the word "pattern"
GenAnalyses ==
  { Analysis("ok", << <<s_know, 4>>, <<s_auth, 3>>, <<s_unit_test, 2>> >>, <<>>, 100, <<>>),
    Analysis("ok", <<>>, << [issue |-> s_switch_issue, count |-> 4],
                            [issue |-> s_capital_issue, count |-> 5],
                            [issue |-> s_bash_issue, count |-> 0] >>, 100, <<>>) }

DoGenerate ==
  \E analysis \in GenAnalyses :
    \E ts \in Readings(generated_count(analysis, load_skills(skillsFile)), now) :
      Propose(analysis, ts)

SpecGenerate ==
  Init /\ [][ \/ Tick
             \/ DoCaptureSkills
             \/ DoGenerate ]_vars

\* ---- skill retrieval (scripts/memory-retrieval.py) ----------------------------------
\* --task over the retrievals: "add auth login flow", "fix auth unit-test for
\* task", "Unit-Test" and no task
MatchTasks ==
  { <<"a","d","d"," ","a","u","t","h"," ","l","o","g","i","n"," ","f","l","o","w">>,
    <<"f","i","x"," ","a","u","t","h"," ","u","n","i","t","-","t","e","s","t"," ","f","o","r"," ","t","a","s","k">>,
    <<"U","n","i","t","-","T","e","s","t">>,
    <<>> }

\* re.findall(r'\w+', s): the maximal runs of word characters
findall_words(s) ==
  LET RECURSIVE findall_from(_, _, _)
      findall_from(x, word, out) ==
        IF Len(x) = 0 THEN (IF Len(word) = 0 THEN out ELSE Append(out, word))
        ELSE IF is_word(Head(x))
             THEN findall_from(Tail(x), Append(word, Head(x)), out)
             ELSE findall_from(Tail(x), <<>>,
                               IF Len(word) = 0 THEN out ELSE Append(out, word))
  IN findall_from(s, <<>>, <<>>)

\* match_skills: the score of one skill
match_score(task_lower, task_words, skill) ==
  LET triggers == skill.triggers
      description == lower(skill.description)
      trigger_matches == Cardinality({ j \in 1..Len(triggers) :
                                         contains(lower(triggers[j]), task_lower) })
      word_matches == Cardinality({ w \in task_words : contains(w, description) })
  IN trigger_matches * 2 + word_matches

\* a sort that puts a record before the records of equal score already placed
insert_before_equal(sorted, x) ==
  LET ahead == { i \in 1..Len(sorted) : sorted[i].score > x.score }
  IN SubSeq(sorted, 1, Cardinality(ahead)) \o <<x>>
       \o SubSeq(sorted, Cardinality(ahead) + 1, Len(sorted))

\* list.sort(key=score, reverse=True) one record at a time: the sort is stable,
\* a record goes after the records of greater or equal score already placed
insert_by_score(sorted, x) ==
  LET ahead == { i \in 1..Len(sorted) : sorted[i].score >= x.score }
  IN SubSeq(sorted, 1, Cardinality(ahead)) \o <<x>>
       \o SubSeq(sorted, Cardinality(ahead) + 1, Len(sorted))

RECURSIVE sort_by_score(_, _)
sort_by_score(scored, sorted) ==
  IF Len(scored) = 0 THEN sorted
  ELSE sort_by_score(Tail(scored), insert_by_score(sorted, Head(scored)))

\* match_skills(task, skills)
match_skills(task, skills) ==
  IF Len(task) = 0 THEN <<>>
  ELSE LET task_lower == lower(task)
           words == findall_words(task_lower)
           task_words == { words[i] : i \in 1..Len(words) }
           all == [i \in 1..Len(skills) |->
                     [score |-> match_score(task_lower, task_words, skills[i]),
                      skill |-> skills[i]]]
           scored_skills == sort_by_score(SelectSeq(all, LAMBDA e : e.score > 0), <<>>)
           top == prefix(scored_skills, 3)
       IN [k \in 1..Len(top) |-> top[k].skill]

\* retrieve_memory(task): the matched skills of a retrieval; nothing is written
Match(task) ==
  /\ last' = IF Len(task) # 0 /\ skillsFile.exists /\ ~decodes(skillsFile)
             THEN Ret("match", task, FALSE, FALSE, "UnicodeDecodeError", <<>>)
             ELSE IF Len(task) # 0 /\ \E i \in 1..Len(load_skills(skillsFile)) :
                                       ~is_record(load_skills(skillsFile)[i])
             THEN Ret("match", task, FALSE, FALSE, "AttributeError", <<>>)
             ELSE Ret("match", task, FALSE, TRUE, "", match_skills(task, load_skills(skillsFile)))
  /\ pre' = skillsFile
  /\ UNCHANGED <<now, skillsFile, proposals, history, backups, sessions, pc, cur, digest, procs>>

\* the collections a skills file can hold: skills captured from sessions and
\* skills added from applied skill proposals, in any order
StoredCollections ==
  LET pool == { extract_skill(s_fix_auth_bug, get_session_id(0), 0),
                extract_skill(s_unknown_task, get_session_id(1), 0),
                propose_skill_from_pattern(s_auth, 3).data,
                propose_skill_from_pattern(s_unit_test, 3).data }
  IN UNION { { c \in [1..n -> pool] : \A i, j \in 1..n : c[i] = c[j] => i = j } :
             n \in 0..MaxStored }

InitMatch ==
  /\ pc = "idle"
  /\ cur = NoCur
  /\ digest = NoDigest
  /\ procs = NoProcs
  /\ now = 0
  /\ skillsFile \in {NoFile} \cup { File(c) : c \in StoredCollections }
  /\ proposals = <<>>
  /\ history = <<>>
  /\ backups = <<>>
  /\ sessions = 0
  /\ last = Ret("start", None, FALSE, TRUE, "", <<>>)
  /\ pre = NoFile

DoMatch == \E task \in MatchTasks : Match(task)

SpecMatch ==
  InitMatch /\ [][ \/ Tick
                  \/ DoMatch ]_vars

\* ---- a skills file with corrupt lines ----------------------------------------------
\* the lines a skills file can hold: records the session hook wrote, and
\* lines damaged outside the program
DamagedFiles ==
  LET pool == { extract_skill(s_fix_auth_bug, get_session_id(0), 0),
                extract_skill(s_unknown_task, get_session_id(1), 0),
                Corrupt("not json"), Corrupt("blank"), Corrupt("undecodable"),
                Corrupt("scalar") }
  IN UNION { { c \in [1..n -> pool] :
                 \A i, j \in 1..n : (is_record(c[i]) /\ c[i] = c[j]) => i = j } :
             n \in 0..MaxLines }

InitDamaged ==
  /\ pc = "idle"
  /\ cur = NoCur
  /\ digest = NoDigest
  /\ procs = NoProcs
  /\ now = 0
  /\ skillsFile \in {NoFile} \cup { File(c) : c \in DamagedFiles }
  /\ proposals = <<>>
  /\ history = <<>>
  /\ backups = <<>>
  /\ sessions = 0
  /\ last = Ret("start", None, FALSE, TRUE, "", <<>>)
  /\ pre = NoFile

SpecDamaged ==
  InitDamaged /\ [][ \/ Tick
                    \/ DoMatch
                    \/ DoCapture ]_vars

\* ---- context compression (scripts/context-compression.py) ---------------------------
\* estimate_tokens(text)
estimate_tokens(text) == Len(text) \div 4

\* str(n) of a natural number
RECURSIVE str_int(_)
str_int(n) ==
  IF n < 10 THEN <<Others[n + 1]>> ELSE str_int(n \div 10) \o <<Others[(n % 10) + 1]>>

\* sep.join(parts)
RECURSIVE join(_, _)
join(sep, parts) ==
  IF Len(parts) = 0 THEN <<>>
  ELSE IF Len(parts) = 1 THEN parts[1]
  ELSE parts[1] \o sep \o join(sep, Tail(parts))

\* str(m) of a message {'role': ..., 'content': ...} whose texts hold no quote
\* and no backslash
str_message(m) == <<"{","'","r","o","l","e","'",":"," ","'">> \o m.role \o <<"'",","," ","'","c","o","n","t","e","n","t","'",":"," ","'">> \o m.content \o <<"'","}">>

\* sum(estimate_tokens(str(m)) for m in messages)
RECURSIVE sum_tokens(_)
sum_tokens(messages) ==
  IF Len(messages) = 0 THEN 0
  ELSE estimate_tokens(str_message(Head(messages))) + sum_tokens(Tail(messages))

\* s[start:stop], with the indices as Python reads them: a negative one counts
\* from the end, and -0 is 0
slice(s, start, stop) ==
  LET index(i) == IF i < 0 THEN (IF Len(s) + i < 0 THEN 0 ELSE Len(s) + i)
                  ELSE (IF i > Len(s) THEN Len(s) ELSE i)
  IN SubSeq(s, index(start) + 1, index(stop))

\* str.strip() of blanks
strip(s) ==
  LET RECURSIVE lstrip(_)
      lstrip(x) == IF Len(x) # 0 /\ Head(x) = " " THEN lstrip(Tail(x)) ELSE x
      RECURSIVE rstrip(_)
      rstrip(x) == IF Len(x) # 0 /\ x[Len(x)] = " "
                   THEN rstrip(SubSeq(x, 1, Len(x) - 1)) ELSE x
  IN rstrip(lstrip(s))

\* list(set(items))[:n]: a set lists its items in an order the caller does not
\* control, so any n of them in any order
listings(items, n) ==
  LET k == IF Cardinality(items) < n THEN Cardinality(items) ELSE n
  IN { q \in [1..k -> items] : \A i, j \in 1..k : q[i] = q[j] => i = j }

\* extract_key_points(messages): for each message and category the first
\* keyword found in the content decides, and the first sentence of more than 20
\* characters that holds it is the key point; the sentences are
\* re.split(r'[.!?]', content), the categories are in dict order
extract_key_points(messages) ==
  LET categories ==
        << [category |-> <<"d","e","c","i","s","i","o","n">>,
            kws |-> << <<"d","e","c","i","d","e","d">>, <<"c","h","o","s","e">>, <<"u","s","i","n","g">>, <<"w","i","l","l"," ","u","s","e">>, <<"g","o","i","n","g"," ","w","i","t","h">> >>],
           [category |-> <<"a","c","t","i","o","n">>,
            kws |-> << <<"c","r","e","a","t","e","d">>, <<"m","o","d","i","f","i","e","d">>, <<"d","e","l","e","t","e","d">>, <<"a","d","d","e","d">>, <<"r","e","m","o","v","e","d">>,
                       <<"f","i","x","e","d">> >>],
           [category |-> <<"e","r","r","o","r">>,
            kws |-> << <<"e","r","r","o","r">>, <<"f","a","i","l","e","d">>, <<"i","s","s","u","e">>, <<"p","r","o","b","l","e","m">>, <<"b","u","g">> >>],
           [category |-> <<"f","i","n","d","i","n","g">>,
            kws |-> << <<"f","o","u","n","d">>, <<"d","i","s","c","o","v","e","r","e","d">>, <<"n","o","t","i","c","e","d">>, <<"i","d","e","n","t","i","f","i","e","d">> >>] >>
      RECURSIVE split_sentences(_, _, _)
      split_sentences(s, sent, out) ==
        IF Len(s) = 0 THEN Append(out, sent)
        ELSE IF Head(s) \in {".", "!", "?"}
             THEN split_sentences(Tail(s), <<>>, Append(out, sent))
             ELSE split_sentences(Tail(s), Append(sent, Head(s)), out)
      category_points(content, cat) ==
        LET content_lower == lower(content)
            found == SelectSeq(cat.kws, LAMBDA kw : contains(kw, content_lower))
            sentences == split_sentences(content, <<>>, <<>>)
            holding == IF Len(found) = 0 THEN <<>>
                       ELSE SelectSeq(sentences, LAMBDA sent :
                              contains(found[1], lower(sent)) /\ Len(strip(sent)) > 20)
        IN IF Len(holding) = 0 THEN {}
           ELSE { <<"[">> \o cat.category \o <<"]"," ">> \o prefix(strip(holding[1]), 100) }
      key_points == UNION { category_points(messages[i].content, categories[c]) :
                              i \in 1..Len(messages), c \in 1..Len(categories) }
  IN listings(key_points, 10)

\* compress_messages: tool_counts as "tool: count" pairs, in the order the
\* tools were first met
tools_str(middle) ==
  LET tools == << <<"R","e","a","d">>, <<"W","r","i","t","e">>, <<"E","d","i","t">>, <<"G","r","e","p">>, <<"G","l","o","b">>, <<"B","a","s","h">>, <<"T","a","s","k">> >>
      tool_count(tool) ==
        Cardinality({ i \in 1..Len(middle) : contains(tool, middle[i].content) })
      first_use(tool) ==
        CHOOSE i \in 1..Len(middle) :
          /\ contains(tool, middle[i].content)
          /\ \A j \in 1..(i - 1) : ~contains(tool, middle[j].content)
      RECURSIVE tools_in_order(_, _)
      tools_in_order(i, t) ==
        IF i > Len(middle) THEN <<>>
        ELSE IF t > Len(tools) THEN tools_in_order(i + 1, 1)
        ELSE (IF contains(tools[t], middle[i].content) /\ first_use(tools[t]) = i
              THEN <<tools[t]>> ELSE <<>>) \o tools_in_order(i, t + 1)
      used == tools_in_order(1, 1)
  IN join(<<","," ">>, [k \in 1..Len(used) |-> used[k] \o <<":"," ">> \o str_int(tool_count(used[k]))])

\* compress_messages: re.findall of ["']([^"']+\.[a-z]+)["'] on str(middle):
\* the texts between two quotes that end in a dot and lowercase letters; the
\* matches do not overlap, so a quote that closed a match does not open the next
file_patterns(middle) ==
  LET text == <<"[">> \o join(<<","," ">>, [i \in 1..Len(middle) |-> str_message(middle[i])]) \o <<"]">>
      places == [i \in 1..Len(text) |-> i]
      quotes == SelectSeq(places, LAMBDA i : text[i] \in {"'", "\""})
      is_file_pattern(seg) ==
        \E k \in 2..(Len(seg) - 1) :
          /\ seg[k] = "."
          /\ \A j \in (k + 1)..Len(seg) : seg[j] \in { Lowers[n] : n \in 1..Len(Lowers) }
      RECURSIVE findall(_, _)
      findall(qs, out) ==
        IF Len(qs) < 2 THEN out
        ELSE LET seg == SubSeq(text, qs[1] + 1, qs[2] - 1)
             IN IF is_file_pattern(seg)
                THEN findall(Tail(Tail(qs)), out \cup {seg})
                ELSE findall(Tail(qs), out)
  IN findall(quotes, {})

\* compress_messages: the summary of the middle for one listing of the files
\* and of the key points
middle_summary(middle, unique_files, key_points) ==
  LET tool_part == IF tools_str(middle) = <<>> THEN <<>>
                   ELSE << <<"T","o","o","l","s"," ","u","s","e","d",":"," ">> \o tools_str(middle) >>
      file_part == IF Len(unique_files) = 0 THEN <<>>
                   ELSE << <<"F","i","l","e","s"," ","t","o","u","c","h","e","d",":"," ">> \o join(<<","," ">>, unique_files) >>
      shown == prefix(key_points, 5)
      point_part == IF Len(key_points) = 0 THEN <<>>
                    ELSE << <<"K","e","y"," ","p","o","i","n","t","s",":">> >> \o [k \in 1..Len(shown) |-> <<" "," ","-"," ">> \o shown[k]]
      middle_summary_parts == tool_part \o file_part \o point_part
  IN IF Len(middle_summary_parts) = 0
     THEN <<"(">> \o str_int(Len(middle)) \o <<" ","m","e","s","s","a","g","e","s"," ","s","u","m","m","a","r","i","z","e","d",")">>
     ELSE join(<<"\n">>, middle_summary_parts)

\* round(x, 1) of the percentage num / den * 100, in tenths of a percent; a
\* half goes to the even neighbour
round_tenths(num, den) ==
  LET a == IF num < 0 THEN 0 - num ELSE num
      q == (a * 1000) \div den
      r == (a * 1000) % den
      up == 2 * r > den \/ (2 * r = den /\ q % 2 = 1)
      m == IF up THEN q + 1 ELSE q
  IN IF num < 0 THEN 0 - m ELSE m

\* compress_messages(messages, head_count, tail_count, max_tokens): the results
\* it can return, one for each listing of the files and of the key points;
\* token_reduction is in tenths of a percent
compress_messages(messages, head_count, tail_count, max_tokens) ==
  IF Len(messages) = 0
  THEN { [head |-> <<>>, summary |-> <<>>, tail |-> <<>>, key_points |-> <<>>] }
  ELSE IF sum_tokens(messages) <= max_tokens
  THEN { [head |-> messages, summary |-> <<>>, tail |-> <<>>, key_points |-> <<>>,
          original_count |-> Len(messages),
          compressed_count |-> Len(messages),
          token_reduction |-> 0] }
  ELSE LET total_tokens == sum_tokens(messages)
           head == slice(messages, 0, head_count)
           tail == IF Len(messages) > head_count + tail_count
                   THEN slice(messages, 0 - tail_count, Len(messages)) ELSE <<>>
           middle == IF Len(tail) # 0 THEN slice(messages, head_count, 0 - tail_count)
                     ELSE slice(messages, head_count, Len(messages))
           result(unique_files, key_points) ==
             LET summary == middle_summary(middle, unique_files, key_points)
                 compressed_tokens == sum_tokens(head) + estimate_tokens(summary)
                                        + sum_tokens(tail)
             IN [head |-> head,
                 summary |-> summary,
                 tail |-> tail,
                 key_points |-> key_points,
                 original_count |-> Len(messages),
                 compressed_count |-> head_count + 1 + Len(tail),
                 token_reduction |-> IF total_tokens > 0
                                     THEN round_tenths(total_tokens - compressed_tokens,
                                                       total_tokens)
                                     ELSE 0]
       IN { result(unique_files, key_points) :
              unique_files \in listings(file_patterns(middle), 5),
              key_points \in extract_key_points(middle) }

\* update_persistent_summary() had it kept the first 5 summaries
update_persistent_summary_keeping_oldest(persistent, new_summary, new_key_points, t) ==
  LET summaries == slice(Append(persistent.summaries,
                                [timestamp |-> isoformat(t), summary |-> new_summary]),
                         0, 5)
      existing_points == persistent.accumulated_key_points
                           \cup { new_key_points[i] : i \in 1..Len(new_key_points) }
      k == IF Cardinality(existing_points) < 20 THEN Cardinality(existing_points) ELSE 20
  IN { [exists |-> TRUE,
        summaries |-> summaries,
        accumulated_key_points |-> kept,
        last_updated |-> isoformat(t)] :
         kept \in { ps \in SUBSET existing_points : Cardinality(ps) = k } }

\* update_persistent_summary(new_summary, new_key_points): the digests it can
\* save; list(existing_points)[-20:] keeps any 20 of the points
update_persistent_summary(persistent, new_summary, new_key_points, t) ==
  LET all == Append(persistent.summaries,
                    [timestamp |-> isoformat(t), summary |-> new_summary])
      summaries == slice(all, 0 - 5, Len(all))
      existing_points == persistent.accumulated_key_points
                           \cup { new_key_points[i] : i \in 1..Len(new_key_points) }
      k == IF Cardinality(existing_points) < 20 THEN Cardinality(existing_points) ELSE 20
  IN { [exists |-> TRUE,
        summaries |-> summaries,
        accumulated_key_points |-> kept,
        last_updated |-> isoformat(t)] :
         kept \in { ps \in SUBSET existing_points : Cardinality(ps) = k } }

\* main with --input had it folded every result into the digest
Compress_always_updating(messages, head_count, tail_count, max_tokens) ==
  \E result \in compress_messages(messages, head_count, tail_count, max_tokens) :
    /\ digest' \in update_persistent_summary(digest, result.summary, result.key_points, now)
    /\ last' = Ret("compress", <<messages, head_count, tail_count, max_tokens, digest>>, FALSE,
                   "original_count" \in DOMAIN result,
                   IF "original_count" \in DOMAIN result THEN "" ELSE "KeyError",
                   <<result>>)
    /\ pre' = skillsFile
    /\ UNCHANGED <<now, skillsFile, proposals, history, backups, sessions, pc, cur, procs>>

\* main with --input: compress, fold a summary that is not empty into the
\* digest, and print the counts, which an empty transcript does not have
\* (last.id holds the arguments and the digest as it was before)
Compress(messages, head_count, tail_count, max_tokens) ==
  \E result \in compress_messages(messages, head_count, tail_count, max_tokens) :
    /\ digest' \in IF Len(result.summary) # 0
                  THEN update_persistent_summary(digest, result.summary, result.key_points, now)
                  ELSE {digest}
    /\ last' = Ret("compress", <<messages, head_count, tail_count, max_tokens, digest>>, FALSE,
                   "original_count" \in DOMAIN result,
                   IF "original_count" \in DOMAIN result THEN "" ELSE "KeyError",
                   <<result>>)
    /\ pre' = skillsFile
    /\ UNCHANGED <<now, skillsFile, proposals, history, backups, sessions, pc, cur, procs>>

\* the messages of the transcripts
m_hi == [role |-> <<"u","s","e","r">>, content |-> <<"h","i">>]
m_read == [role |-> <<"a","s","s","i","s","t","a","n","t">>, content |-> <<"R","e","a","d"," ","a",".","p","y">>]
m_fixed == [role |-> <<"u","s","e","r">>, content |-> <<"f","i","x","e","d"," ","t","h","e"," ","l","o","g","i","n"," ","b","u","g"," ","i","n"," ","t","h","e"," ","p","a","r","s","e","r","."," ","d","o","n","e">>]

\* a compression of any transcript of these messages, with any --head, --tail
\* and --max-tokens of the model, on a digest that holds no summary yet
DoCompress ==
  /\ Len(digest.summaries) < MaxCompressions
  /\ \E messages \in UNION { [1..n -> {m_hi, m_read, m_fixed}] : n \in 0..MaxMessages },
        head_count \in 0..MaxHead, tail_count \in 0..MaxTail, max_tokens \in {0, 20} :
       Compress(messages, head_count, tail_count, max_tokens)

SpecCompress == Init /\ [][DoCompress]_vars

\* ---- compressions in a row ------------------------------------------------------------
\* invocations of the compressor: three whose summaries differ, and one that
\* does not compress
Runs ==
  { << <<m_hi>>, 2, 2, 0 >>,
    << <<m_read, m_hi>>, 0, 1, 0 >>,
    << <<m_fixed, m_hi>>, 0, 1, 0 >>,
    << <<m_hi>>, 2, 2, 20 >> }

DoCompressRuns == \E run \in Runs : Compress(run[1], run[2], run[3], run[4])

SpecDigest == Init /\ [][DoCompressRuns]_vars

\* ---- a compression on a stored digest --------------------------------------------------
\* the digests earlier compressions left: two summaries, and nearly as many
\* key points as are kept, or as many
StoredDigests ==
  { [exists |-> TRUE,
     summaries |-> << [timestamp |-> isoformat(0), summary |-> <<"(","0"," ","m","e","s","s","a","g","e","s"," ","s","u","m","m","a","r","i","z","e","d",")">>],
                      [timestamp |-> isoformat(0), summary |-> <<"(","1"," ","m","e","s","s","a","g","e","s"," ","s","u","m","m","a","r","i","z","e","d",")">>] >>,
     accumulated_key_points |-> { <<"[","f","i","n","d","i","n","g","]"," ","f","o","u","n","d"," ","i","t","e","m"," ">> \o str_int(n) : n \in 1..k },
     last_updated |-> isoformat(0)] : k \in {20 - 1, 20} }

InitStored ==
  /\ pc = "idle"
  /\ cur = NoCur
  /\ digest \in StoredDigests
  /\ procs = NoProcs
  /\ now = 0
  /\ skillsFile = NoFile
  /\ proposals = <<>>
  /\ history = <<>>
  /\ backups = <<>>
  /\ sessions = 0
  /\ last = Ret("start", None, FALSE, TRUE, "", <<>>)
  /\ pre = NoFile

DoCompressStored == Len(digest.summaries) < MaxSummaries /\ DoCompressRuns

SpecStored ==
  InitStored /\ [][ \/ Tick
                   \/ DoCompressStored ]_vars

\* ---- the compressor next to the session hook and the pipeline -------------------------
DoCompressOnce == Len(digest.summaries) < MaxCompressions /\ DoCompressRuns

SpecMemory ==
  Init /\ [][ \/ Tick
             \/ DoCapture
             \/ DoProposeSkills
             \/ DoApply
             \/ Rollback
             \/ DoCompressOnce ]_vars

\* ---- invocations that run as separate processes, without a lock ----------------------
\* every read and every write of a file is one step; a process runs one
\* invocation
Running(p) == procs[p].at \notin {"new", "done"}

\* apply_proposal() of a non-dry-run --apply: load_proposals(), the search, the
\* status test and the dispatch to apply_skill_add()
ProcApply(p, proposal_id) ==
  LET k == find_proposal(proposals, proposal_id)
      run == [NoRun EXCEPT !.op = "apply",
                           !.overlapped = \E q \in Procs \ {p} : Running(q)]
      refused(msg) ==
        [run EXCEPT !.at = "done",
                    !.result = Ret("apply", proposal_id, FALSE, FALSE, msg, <<proposal_id>>)]
      after == IF k = 0 THEN refused("not found")
               ELSE IF already_applied(proposals[k]) THEN refused("already applied")
               ELSE [run EXCEPT !.at = "backup", !.proposal = proposals[k],
                                !.skill = proposals[k].data]
  IN /\ procs[p].at = "new"
     /\ k # 0 => proposals[k].type = "skill_add"
     /\ procs' = [procs EXCEPT ![p] = after]
     /\ last' = IF after.at = "done" THEN after.result ELSE last
     /\ UNCHANGED <<now, skillsFile, proposals, history, backups, sessions, pre, pc, cur, digest>>

\* apply_skill_add: backup_path = backup_file(skills_file)
ProcBackup(p) ==
  LET b == backup_file(skillsFile, backups, now)
  IN /\ procs[p].at = "backup"
     /\ backups' = b.backups
     /\ procs' = [procs EXCEPT ![p].at = "append", ![p].path = b.path]
     /\ UNCHANGED <<now, skillsFile, proposals, history, sessions, last, pre, pc, cur, digest>>

\* apply_skill_add: the skill is written to the file opened in append mode
ProcAppend(p) ==
  /\ procs[p].at = "append"
  /\ skillsFile' = File(Append(skillsFile.lines, procs[p].skill))
  /\ procs' = [procs EXCEPT ![p].at = "history"]
  /\ UNCHANGED <<now, proposals, history, backups, sessions, last, pre, pc, cur, digest>>

\* apply_skill_add: save_history(...)
ProcHistory(p) ==
  /\ procs[p].at = "history"
  /\ history' = save_history(history, skill_add_entry(procs[p].proposal, procs[p].path, now))
  /\ procs' = [procs EXCEPT ![p].at = "status"]
  /\ UNCHANGED <<now, skillsFile, proposals, backups, sessions, last, pre, pc, cur, digest>>

\* update_proposal_status: load_proposals() and the loop that sets the status
ProcStatus(p) ==
  /\ procs[p].at = "status"
  /\ procs' = [procs EXCEPT
                 ![p].at = "rewrite",
                 ![p].held = update_proposal_status(proposals, procs[p].proposal.id,
                                                    "applied", now)]
  /\ UNCHANGED <<now, skillsFile, proposals, history, backups, sessions, last, pre, pc, cur,
                 digest>>

\* update_proposal_status: the file is written anew; apply_skill_add returns
ProcRewrite(p) ==
  LET result == Ret("apply", procs[p].proposal.id, FALSE, TRUE, "Added skill",
                    <<procs[p].skill.name>>)
  IN /\ procs[p].at = "rewrite"
     /\ proposals' = procs[p].held
     /\ procs' = [procs EXCEPT ![p].at = "done", ![p].result = result]
     /\ last' = result
     /\ UNCHANGED <<now, skillsFile, history, backups, sessions, pre, pc, cur, digest>>

\* capture_session() up to save_skill's read of the skills file and its update
\* of the list it has read
ProcAdd(p, task) ==
  LET skill == extract_skill(task, get_session_id(sessions), now)
      run == [NoRun EXCEPT !.op = "add",
                           !.overlapped = \E q \in Procs \ {p} : Running(q)]
      after == IF extractable("success", task)
               THEN [run EXCEPT !.at = "write", !.skill = skill,
                                !.held = save_skill(skillsFile, skill)]
               ELSE [run EXCEPT !.at = "done",
                                !.result = Ret("capture", None, FALSE, TRUE, "", <<>>)]
  IN /\ procs[p].at = "new"
     /\ sessions' = sessions + 1
     /\ procs' = [procs EXCEPT ![p] = after]
     /\ last' = IF after.at = "done" THEN after.result ELSE last
     /\ UNCHANGED <<now, skillsFile, proposals, history, backups, pre, pc, cur, digest>>

\* save_skill: all the skills it holds are written back; capture_session returns
ProcWrite(p) ==
  LET result == Ret("capture", None, FALSE, TRUE, "Skill extracted", <<>>)
  IN /\ procs[p].at = "write"
     /\ skillsFile' = procs[p].held
     /\ procs' = [procs EXCEPT ![p].at = "done", ![p].result = result]
     /\ last' = result
     /\ UNCHANGED <<now, proposals, history, backups, sessions, pre, pc, cur, digest>>

SpecRace ==
  Init /\ [][ \/ Tick
              \/ DoProposeSkills
              \/ \E p \in Procs, proposal_id \in ProposalIds : ProcApply(p, proposal_id)
              \/ \E p \in Procs : ProcBackup(p)
              \/ \E p \in Procs : ProcAppend(p)
              \/ \E p \in Procs : ProcHistory(p)
              \/ \E p \in Procs : ProcStatus(p)
              \/ \E p \in Procs : ProcRewrite(p)
              \/ \E p \in Procs, task \in Tasks : ProcAdd(p, task)
              \/ \E p \in Procs : ProcWrite(p) ]_vars

\* ---- properties -----------------------------------------------------------------------
\* this step is a non-dry-run `--apply` of the id of proposal p
AppliesNow(p) == Apply(p.id, FALSE)

\* the last invocation was a Rollback that succeeded, and this step is a Rollback
RollsBackAgain == last.op = "rollback" /\ last.ok /\ Rollback

StoresUnchanged == UNCHANGED <<skillsFile, proposals, history, backups>>

\* C1: the first non-dry-run Apply of a pending skill_add proposal succeeds and
\* appends its skill record; every later Apply of its id fails with "already
\* applied" and adds nothing, so the collection holds one new record for it.
C1_ApplyOnce ==
  [][\A k \in 1..Len(proposals) :
       (proposals[k].type = "skill_add" /\ AppliesNow(proposals[k])) =>
         IF proposals[k].status = "pending"
         THEN /\ last'.ok
              /\ skillsFile' = File(Append(load_skills(skillsFile), proposals[k].data))
         ELSE /\ ~last'.ok
              /\ last'.msg = "already applied"
              /\ skillsFile' = skillsFile]_vars

\* C2: Rollback right after a successful skill_add Apply succeeds and leaves the
\* skill collection exactly as it was before the Apply.
C2_RoundTrip ==
  [][(/\ last.op = "apply" /\ last.ok /\ ~last.dry /\ last.msg = "Added skill"
      /\ Rollback)
       => (last'.ok /\ skillsFile' = pre)]_vars

\* C3: a proposal that is applied or recorded keeps its status, and every later
\* non-dry-run Apply of it fails, appends no history entry and changes no store.
C3_StatusForward ==
  [][\A k \in 1..Len(proposals) :
       proposals[k].status \in {"applied", "recorded"} =>
         /\ Len(proposals') >= k /\ proposals'[k].status = proposals[k].status
         /\ AppliesNow(proposals[k]) => (~last'.ok /\ StoresUnchanged)]_vars

\* C4: the proposals of one run and of the proposal collection have different
\* ids, and a proposal generated later has a larger id.
C4_IdsUniqueOrdered ==
  /\ \A i, j \in 1..Len(proposals) : i < j => proposals[i].id[2] < proposals[j].id[2]
  /\ last.op = "propose" =>
       \A i, j \in 1..Len(last.out) : i < j => last.out[i].id[2] < last.out[j].id[2]

\* C5: no two records of the skill collection have the same skill_id.
C5_SkillIdUnique ==
  \A i, j \in 1..Len(skillsFile.lines) :
    i # j => skillsFile.lines[i].skill_id # skillsFile.lines[j].skill_id

\* C6: a manual_review or info proposal stays pending and no history entry
\* carries its id.
C6_NeverMachineApplied ==
  \A k \in 1..Len(proposals) :
    proposals[k].type \in {"manual_review", "info"} =>
      /\ proposals[k].status = "pending"
      /\ \A h \in 1..Len(history) : Get(history[h], "proposal_id") # proposals[k].id

\* C7: in a skill_add Apply the history entry follows the appended record, the
\* status changes last, and whenever the skill collection differs from its
\* pre-apply content, also after the process stopped, a backup snapshot equal
\* to the pre-apply content exists.
C7_BackupBeforeMutation ==
  /\ pc \in {"history", "status"} =>
       skillsFile = File(Append(load_skills(cur.pre), cur.proposal.data))
  /\ pc = "status" => history[Len(history)].proposal_id = cur.proposal.id
  /\ (pc \in {"append", "history", "status", "stopped"} /\ skillsFile # cur.pre) =>
       \E q \in DOMAIN backups : File(backups[q]) = cur.pre

\* C8: every step leaves the history entries it found unchanged and in place;
\* entries are only added at the end.
C8_HistoryAppendOnly ==
  [][/\ Len(history') >= Len(history)
     /\ SubSeq(history', 1, Len(history)) = history]_vars

C8_Witness ==
  /\ Len(history) >= 2
  /\ history[Len(history)].type = "rollback"
  /\ last.op = "rollback" /\ last.ok

\* C9, as stated: a Rollback right after a successful Rollback fails with "no
\* history" and changes no store.
C9_SecondRollbackNoHistory ==
  [][RollsBackAgain =>
       (~last'.ok /\ last'.msg = "No history to rollback" /\ StoresUnchanged)]_vars

\* C9, amended: a Rollback right after a successful Rollback fails with "No
\* backup available for rollback" and changes no store.
C9_SecondRollbackNoBackup ==
  [][RollsBackAgain =>
       (~last'.ok /\ last'.msg = "No backup available for rollback"
        /\ StoresUnchanged)]_vars

C9_Witness ==
  /\ last.op = "rollback" /\ ~last.ok
  /\ last.msg = "No backup available for rollback"
  /\ Len(history) >= 2 /\ history[Len(history)].type = "rollback"
  /\ pre = skillsFile

\* C10, as stated: a Rollback right after a successful Rollback succeeds again
\* and copies the same backup over the skill collection.
C10_SecondRollbackSucceeds ==
  [][RollsBackAgain =>
       (/\ last'.ok
        /\ skillsFile' = File(backups[history[Len(history)].restored_from]))]_vars

\* C10, amended: a successful Rollback leaves the entry it restored in the
\* history with its backup reference and adds a rollback record without one;
\* the Rollback that follows it fails and copies nothing.
C10_SecondRollbackFails ==
  [][RollsBackAgain =>
       LET n == Len(history)
       IN /\ n >= 2
          /\ history[n].type = "rollback"
          /\ history[n - 1].type = "skill_add"
          /\ history[n - 1].backup = history[n].restored_from
          /\ history[n - 1].backup \in DOMAIN backups
          /\ ~last'.ok
          /\ history' = history
          /\ skillsFile' = skillsFile]_vars

C10_Witness ==
  /\ last.op = "rollback" /\ ~last.ok
  /\ Len(history) >= 2
  /\ history[Len(history)].type = "rollback"
  /\ history[Len(history) - 1].type = "skill_add"
  /\ skillsFile = File(backups[history[Len(history)].restored_from])

\* the most recent history entry is a skill_add with a backup reference whose
\* snapshot exists
Restorable ==
  /\ Len(history) > 0
  /\ history[Len(history)].type = "skill_add"
  /\ Get(history[Len(history)], "backup") # None
  /\ Get(history[Len(history)], "backup") \in DOMAIN backups

\* C11: Rollback succeeds exactly when the history is non-empty and its last
\* entry is a skill_add with a backup reference whose snapshot exists; when it
\* fails, the skill collection, the history and the proposals are unchanged.
C11_RollbackIff ==
  [][Rollback =>
       /\ last'.ok <=> Restorable
       /\ ~last'.ok => UNCHANGED <<skillsFile, history, proposals>>]_vars

C11_Witness ==
  /\ last.op = "rollback" /\ ~last.ok
  /\ Len(history) > 0
  /\ history[Len(history)].type \in {"routing_update", "threshold_adjust"}
  /\ skillsFile = pre

\* the evolution types the module names but apply_proposal does not dispatch on
UnknownTypes == {"skill_update", "knowledge_add", "preference_learn"}

\* apply_proposal() on a proposal of such a type, put first in the proposal
\* collection of the current state: failure, "Unknown proposal type", no effect
UnknownTypeRefused ==
  \A ty \in UnknownTypes :
    LET p == [id |-> generate_proposal_id(now), timestamp |-> isoformat(now),
              status |-> "pending", type |-> ty, data |-> None,
              reason |-> <<"operator">>]
        st == [Stores EXCEPT !.proposals = <<p>> \o proposals]
        r == apply_proposal(st, p.id, FALSE, now)
    IN /\ ~r.ok /\ r.msg = "Unknown proposal type" /\ r.arg = <<ty>>
       /\ r.skills = st.skills /\ r.proposals = st.proposals
       /\ r.history = st.history /\ r.backups = st.backups

\* C12: an Apply that returns failure changes no store; an Apply of an id that
\* no proposal has fails with the not-found message, which names the id; a
\* proposal of an unrecognized type is refused without effect.
C12_FailedApplyNoEffect ==
  [][/\ \A id \in ProposalIds, dry \in BOOLEAN :
          Apply(id, dry) =>
            /\ ~last'.ok => StoresUnchanged
            /\ find_proposal(proposals, id) = 0 =>
                 (~last'.ok /\ last'.msg = "not found" /\ last'.out = <<id>>)
     /\ UnknownTypeRefused]_vars

C12_Witness ==
  /\ last.op = "apply" /\ ~last.ok
  /\ last.msg = "not found" /\ last.out = <<last.id>>
  /\ Len(proposals) > 0 /\ Len(history) > 0

\* C13: an Apply with dry_run = true changes no store, whatever the type and
\* the status of the proposal, and for a proposal of the collection that is not
\* yet applied it returns success with the would-apply message.
C13_DryRunNoMutation ==
  [][/\ \A id \in ProposalIds : Apply(id, TRUE) => StoresUnchanged
     /\ \A k \in 1..Len(proposals) :
          (proposals[k].status # "applied" /\ Apply(proposals[k].id, TRUE)) =>
            (last'.ok /\ last'.msg = "DRY RUN")]_vars

\* C14: a non-dry-run Apply of a pending routing_update or threshold_adjust
\* proposal succeeds, appends one history entry, which records that proposal
\* and has no backup reference, sets the proposal's status to recorded, and
\* leaves the skill collection and the backups unchanged.
C14_RecordedOnly ==
  [][\A k \in 1..Len(proposals) :
       (/\ proposals[k].type \in {"routing_update", "threshold_adjust"}
        /\ proposals[k].status = "pending"
        /\ AppliesNow(proposals[k])) =>
         /\ last'.ok
         /\ Len(history') = Len(history) + 1
         /\ SubSeq(history', 1, Len(history)) = history
         /\ "backup" \notin DOMAIN history'[Len(history')]
         /\ history'[Len(history')].proposal_id = proposals[k].id
         /\ history'[Len(history')].type = proposals[k].type
         /\ proposals'[k].status = "recorded"
         /\ skillsFile' = skillsFile
         /\ backups' = backups]_vars

\* C15: every step other than a Rollback keeps each record of the skill
\* collection in its place and does not lower its times_used.
C15_SkillsKept ==
  [][~Rollback =>
       \A i \in 1..Len(load_skills(skillsFile)) :
         /\ Len(load_skills(skillsFile')) >= i
         /\ skillsFile'.lines[i].skill_id = skillsFile.lines[i].skill_id
         /\ skillsFile'.lines[i].times_used >= skillsFile.lines[i].times_used]_vars

C15_Witness ==
  /\ last.op = "capture"
  /\ \E i, j \in 1..Len(skillsFile.lines) :
       /\ skillsFile.lines[i].skill_id[1] = "skill_auto"
       /\ skillsFile.lines[j].times_used >= 2

\* C17: the success_rate of every record of the skill collection lies in [0,1].
C17_RateInUnitInterval ==
  \A i \in 1..Len(skillsFile.lines) :
    LET rate == skillsFile.lines[i].success_rate
    IN rate[2] > 0 /\ 0 <= rate[1] /\ rate[1] <= rate[2]

C17_Witness ==
  /\ last.op = "rollback" /\ last.ok
  /\ \E i \in 1..Len(skillsFile.lines) : skillsFile.lines[i].times_used >= 2

\* this step captures a session with this task, and its skill is merged into
\* record i of the skill collection
Merges(task, i) ==
  /\ extractable("success", task)
  /\ i \in 1..Len(load_skills(skillsFile))
  /\ skillsFile.lines[i].skill_id = extract_skill(task, None, now).skill_id
  /\ \A m \in 1..(i - 1) : skillsFile.lines[m].skill_id # skillsFile.lines[i].skill_id
  /\ CaptureSession(task)

RecordsOf(task, file) ==
  { i \in 1..Len(load_skills(file)) : file.lines[i].description = task }

\* C18: the same task always maps to the same skill_id; a capture of a task
\* leaves exactly one record for it, whose times_used is 1 when the task is new
\* and one more than before otherwise, and whose success_rate is 1.0: n
\* captures of one task leave one record with times_used = n and rate 1.0.
C18_MergeMonotone ==
  [][\A task \in Tasks :
       (extractable("success", task) /\ CaptureSession(task)) =>
         /\ \A m, n \in 0..MaxAdds, t, u \in 0..MaxClock :
              extract_skill(task, get_session_id(m), t).skill_id
                = extract_skill(task, get_session_id(n), u).skill_id
         /\ Cardinality(RecordsOf(task, skillsFile)) <= 1
         /\ Cardinality(RecordsOf(task, skillsFile')) = 1
         /\ \A j \in RecordsOf(task, skillsFile') :
              /\ skillsFile'.lines[j].success_rate = <<1, 1>>
              /\ skillsFile'.lines[j].times_used =
                   IF RecordsOf(task, skillsFile) = {} THEN 1
                   ELSE skillsFile.lines[j].times_used + 1]_vars

C18_Witness ==
  /\ last.op = "capture" /\ sessions = 3
  /\ Len(skillsFile.lines) = 1
  /\ skillsFile.lines[1].times_used = 3
  /\ skillsFile.lines[1].success_rate = <<1, 1>>

\* C19: a merge changes only times_used, last_used and success_rate of the
\* matching record; its other fields, the other records, their order and their
\* number stay as they were.
C19_MergeFrame ==
  [][\A task \in Tasks, i \in 1..Len(skillsFile.lines) :
       Merges(task, i) =>
         /\ Len(skillsFile'.lines) = Len(skillsFile.lines)
         /\ \A m \in 1..Len(skillsFile.lines) :
              m # i => skillsFile'.lines[m] = skillsFile.lines[m]
         /\ DOMAIN skillsFile'.lines[i] = DOMAIN skillsFile.lines[i]
         /\ \A f \in DOMAIN skillsFile.lines[i] \ {"times_used", "last_used", "success_rate"} :
              skillsFile'.lines[i][f] = skillsFile.lines[i][f]]_vars

C19_Witness ==
  /\ last.op = "capture" /\ last.msg = "Skill extracted"
  /\ Len(skillsFile.lines) = 2
  /\ Len(pre.lines) = 2
  /\ \E i \in 1..2 : skillsFile.lines[i].times_used = pre.lines[i].times_used + 1

\* C20: a capture whose task description is empty or shorter than 10
\* characters creates no skill, leaves the skill collection unchanged and
\* reports no error; no skill is extracted from a session whose outcome is not
\* success.
C20_NoSkillNoError ==
  [][\A task \in Tasks :
       /\ ~extractable("failure", task)
       /\ (CaptureSession(task) /\ (Len(task) = 0 \/ Len(task) < 10)) =>
            (skillsFile' = skillsFile /\ last'.ok /\ last'.msg = "")]_vars

C20_Witness ==
  /\ last.op = "capture" /\ last.ok /\ last.msg = ""
  /\ Len(skillsFile.lines) >= 1
  /\ skillsFile = pre

\* this step is a `--propose` run on this analysis
Proposes(analysis) ==
  \E ts \in Readings(generated_count(analysis, load_skills(skillsFile)), now) :
    Propose(analysis, ts)

\* a --propose run on an analysis with data emits a skill_add proposal for
\* exactly the missed patterns with count >= 3 that no trigger of a stored
\* skill contains, case folded
SkillProposedIffUncovered(analysis) ==
  \A m \in 1..Len(analysis.common_missed_patterns) :
    LET pattern == analysis.common_missed_patterns[m][1]
        count == analysis.common_missed_patterns[m][2]
        proposed == \E k \in 1..Len(last'.out) :
                      /\ last'.out[k].type = "skill_add"
                      /\ last'.out[k].data.triggers[1] = pattern
        covered == \E i \in 1..Len(skillsFile.lines) :
                     \E j \in 1..Len(skillsFile.lines[i].triggers) :
                       contains(lower(pattern), lower(skillsFile.lines[i].triggers[j]))
    IN proposed <=> (count >= 3 /\ ~covered)

\* C21: GenerateProposals emits a skill_add proposal for a (pattern, count)
\* pair exactly when count >= 3 and no stored skill has a trigger that contains
\* the pattern as a case-insensitive substring.
C21_SkillProposedIffUncovered ==
  [][\A analysis \in GenAnalyses :
       Proposes(analysis) => SkillProposedIffUncovered(analysis)]_vars

C21_Witness ==
  /\ last.op = "propose"
  /\ skillsFile = pre
  /\ \E i \in 1..Len(skillsFile.lines) :
       \E j \in 1..Len(skillsFile.lines[i].triggers) :
         /\ contains(s_know, skillsFile.lines[i].triggers[j])
         /\ skillsFile.lines[i].triggers[j] # s_know
  /\ Len(last.out) = 1
  /\ last.out[1].type = "skill_add"
  /\ last.out[1].data.triggers[1] = s_auth

\* the pending routing_update proposals of a run that carry the tool pair and
\* the count of an issue
RoutingFor(issue, out) ==
  { k \in 1..Len(out) :
      /\ out[k].type = "routing_update"
      /\ out[k].status = "pending"
      /\ out[k].data.from_tool = group1(issue.issue, search_arrow(issue.issue))
      /\ out[k].data.to_tool = group2(issue.issue, search_arrow(issue.issue))
      /\ out[k].data.pattern = issue.count }

\* C22, as stated: a --propose run emits one pending routing_update proposal
\* for every issue of the analysis whose description contains a toolA->toolB
\* pair, carrying the pair and the issue's count.
C22_RoutingForEveryPair ==
  [][\A analysis \in GenAnalyses :
       Proposes(analysis) =>
         \A m \in 1..Len(analysis.efficiency_issues) :
           LET issue == analysis.efficiency_issues[m]
           IN search_arrow(issue.issue) # 0 =>
                Cardinality(RoutingFor(issue, last'.out)) = 1]_vars

\* C22, amended: the proposal is emitted for the issues whose description
\* contains the word "pattern", in any case, and a toolA->toolB pair; an issue
\* without that word yields none, and no other routing_update is emitted.
C22_RoutingForPatternPair ==
  [][\A analysis \in GenAnalyses :
       Proposes(analysis) =>
         LET issues == analysis.efficiency_issues
             named == { m \in 1..Len(issues) :
                          /\ search_arrow(issues[m].issue) # 0
                          /\ contains(s_pattern, lower(issues[m].issue)) }
         IN /\ \A m \in named : Cardinality(RoutingFor(issues[m], last'.out)) = 1
            /\ Cardinality({ k \in 1..Len(last'.out) :
                               last'.out[k].type = "routing_update" })
                 = Cardinality(named)]_vars

C22_Witness ==
  /\ last.op = "propose"
  /\ Len(last.out) = 1
  /\ last.out[1].type = "routing_update"
  /\ last.out[1].status = "pending"
  /\ last.out[1].data = [from_tool |-> <<"R","e","a","d">>,
                         to_tool |-> <<"G","l","o","b">>, pattern |-> 5]
  /\ Len(proposals) >= 1

\* the score of the skill at place i of the stored collection for the task
\* of the most recent retrieval
ScoreAt(i) ==
  LET skill == load_skills(skillsFile)[i]
      task_lower == lower(last.id)
      words == findall_words(task_lower)
  IN 2 * Cardinality({ j \in 1..Len(skill.triggers) :
                         contains(lower(skill.triggers[j]), task_lower) })
     + Cardinality({ w \in { words[n] : n \in 1..Len(words) } :
                       contains(w, lower(skill.description)) })

\* the place in the stored collection of the k-th returned skill
PlaceOf(k) ==
  CHOOSE i \in 1..Len(load_skills(skillsFile)) : load_skills(skillsFile)[i] = last.out[k]

\* C23: a retrieval returns at most 3 skills of the collection, each of
\* score > 0, by non-increasing score and, at equal score, in collection
\* order; the skills left out score 0 or come after the third; an empty task
\* returns nothing
C23_MatchTop3 ==
  last.op = "match" =>
    LET skills == load_skills(skillsFile)
        out == last.out
    IN /\ Len(out) <= 3
       /\ \A k \in 1..Len(out) :
            /\ \E i \in 1..Len(skills) : skills[i] = out[k]
            /\ ScoreAt(PlaceOf(k)) > 0
       /\ \A k, l \in 1..Len(out) :
            k < l => \/ ScoreAt(PlaceOf(k)) > ScoreAt(PlaceOf(l))
                     \/ /\ ScoreAt(PlaceOf(k)) = ScoreAt(PlaceOf(l))
                        /\ PlaceOf(k) < PlaceOf(l)
       /\ \A i \in 1..Len(skills) :
            (Len(last.id) # 0 /\ ScoreAt(i) > 0
               /\ \A k \in 1..Len(out) : PlaceOf(k) # i)
            => /\ Len(out) = 3
               /\ \/ ScoreAt(i) < ScoreAt(PlaceOf(3))
                  \/ ScoreAt(i) = ScoreAt(PlaceOf(3)) /\ PlaceOf(3) < i
       /\ Len(last.id) = 0 => out = <<>>

\* a retrieval over four scoring skills returned three, two of them of equal
\* score, and one ahead of a skill stored before it
C23_Witness ==
  /\ last.op = "match"
  /\ Len(load_skills(skillsFile)) = 4
  /\ \A i \in 1..4 : ScoreAt(i) > 0
  /\ Len(last.out) = 3
  /\ \E k, l \in 1..3 : k < l /\ ScoreAt(PlaceOf(k)) = ScoreAt(PlaceOf(l))
  /\ \E k, l \in 1..3 : k < l /\ PlaceOf(k) > PlaceOf(l)

\* the records among the lines of a file, in file order
RecordsIn(lines) == SelectSeq(lines, is_record)

\* the lines of a file that are JSON but no object
ScalarsIn(lines) == SelectSeq(lines, LAMBDA l : ~is_record(l) /\ l.raw = "scalar")

\* C24: loading the skills never fails on a corrupt line and yields the
\* parseable records in file order: a retrieval does not end in the load, and
\* the rewrite of a session that yields a skill persists the merge or the
\* append over exactly the records of the file, without the corrupt lines
C24_CorruptLinesDropped ==
  [][ /\ \A task \in MatchTasks : Match(task) => last'.msg # "UnicodeDecodeError"
      /\ \A task \in Tasks :
           (CaptureSession(task) /\ extractable("success", task)
              /\ ScalarsIn(skillsFile.lines) = <<>>)
           => /\ last'.ok
              /\ skillsFile' = save_skill(File(RecordsIn(skillsFile.lines)),
                                          extract_skill(task, get_session_id(sessions), now)) ]_vars

\* the inputs and the result of the most recent compression
Messages == last.id[1]
HeadCount == last.id[2]
TailCount == last.id[3]
MaxTokens == last.id[4]
CompressionResult == last.out[1]

\* C25: a transcript whose estimated tokens do not exceed max_tokens comes
\* back whole: head is the transcript, summary and tail are empty, and
\* token_reduction is 0
C25_SmallTranscriptKept ==
  (last.op = "compress" /\ sum_tokens(Messages) <= MaxTokens) =>
    /\ CompressionResult.head = Messages
    /\ CompressionResult.summary = <<>>
    /\ CompressionResult.tail = <<>>
    /\ "token_reduction" \in DOMAIN CompressionResult
    /\ CompressionResult.token_reduction = 0


\* a compression happened in the most recent invocation
Compressed ==
  last.op = "compress" /\ Len(Messages) # 0 /\ sum_tokens(Messages) > MaxTokens

\* C26: when compression happens, head is the first head_count records, tail
\* is the last tail_count records if there are more than head_count +
\* tail_count records and is empty otherwise, so that head, the middle and
\* tail split the transcript in order
C26_HeadMiddleTail ==
  Compressed =>
    LET n == Len(Messages)
        head == SubSeq(Messages, 1, IF HeadCount < n THEN HeadCount ELSE n)
        tail == IF n > HeadCount + TailCount
                THEN SubSeq(Messages, n - TailCount + 1, n) ELSE <<>>
    IN /\ CompressionResult.head = head
       /\ CompressionResult.tail = tail
       /\ \E middle \in { SubSeq(Messages, i, j) : i \in 1..(n + 1), j \in 0..n } :
            CompressionResult.head \o middle \o CompressionResult.tail = Messages

\* C27: the reported token_reduction is never negative; it is the share of
\* the original estimate that head, summary and tail no longer take, and 0
\* when the original estimate is 0
C27_ReductionNotNegative ==
  Compressed =>
    LET original == sum_tokens(Messages)
        kept == sum_tokens(CompressionResult.head)
                  + estimate_tokens(CompressionResult.summary)
                  + sum_tokens(CompressionResult.tail)
    IN /\ CompressionResult.token_reduction >= 0
       /\ original = 0 => CompressionResult.token_reduction = 0
       /\ original > 0 =>
            CompressionResult.token_reduction = round_tenths(original - kept, original)


\* the digest as it was before the most recent compression
DigestBefore == last.id[5]

\* C28: the digest holds at most 5 summaries, and after a compression with a
\* summary they are the most recently appended ones in the order they were
\* appended: the earlier ones less the oldest beyond 5, then the new one
C28_DigestCap ==
  /\ Len(digest.summaries) <= 5
  /\ (last.op = "compress" /\ Len(CompressionResult.summary) # 0) =>
       LET earlier == DigestBefore.summaries
           n == IF Len(earlier) + 1 < 5 THEN Len(earlier) + 1 ELSE 5
       IN /\ Len(digest.summaries) = n
          /\ SubSeq(digest.summaries, 1, n - 1)
               = SubSeq(earlier, Len(earlier) - n + 2, Len(earlier))
          /\ digest.summaries[n].summary = CompressionResult.summary

\* a compression appended a summary to a digest that held 5, and the oldest,
\* which differed from the second oldest, is gone
C28_Witness ==
  /\ last.op = "compress"
  /\ Len(CompressionResult.summary) # 0
  /\ Len(DigestBefore.summaries) = 5
  /\ DigestBefore.summaries[1].summary # DigestBefore.summaries[2].summary
  /\ Len(digest.summaries) = 5
  /\ digest.summaries[1] = DigestBefore.summaries[2]
  /\ digest.summaries[5].summary # DigestBefore.summaries[5].summary


\* the key points of the most recent compression
NewPoints == { CompressionResult.key_points[i] : i \in 1..Len(CompressionResult.key_points) }

\* C29: after a compression with a summary the digest holds at most 20 key
\* points, all of them from the earlier digest or the compression, as many as
\* there are up to 20, and those of the compression are among them: the points
\* given up beyond 20 are earlier ones
C29_KeyPointsCap ==
  (last.op = "compress" /\ Len(CompressionResult.summary) # 0) =>
    LET inserted == DigestBefore.accumulated_key_points \cup NewPoints
    IN /\ Cardinality(digest.accumulated_key_points) <= 20
       /\ digest.accumulated_key_points \subseteq inserted
       /\ Cardinality(inserted) <= 20 => digest.accumulated_key_points = inserted
       /\ Cardinality(inserted) > 20 => Cardinality(digest.accumulated_key_points) = 20
       /\ NewPoints \subseteq digest.accumulated_key_points


\* this step is a compression
Compresses ==
  /\ last'.op = "compress"
  /\ \E run \in Runs : Compress(run[1], run[2], run[3], run[4])

\* C30: the digest changes only in a compression that produced a summary, so
\* no step of the session hook or of the pipeline changes it; a compression
\* without a summary leaves it as it was, and a compression changes neither
\* the skills nor the proposals nor the history
C30_DigestFrame ==
  [][ /\ digest' # digest => (Compresses /\ Len(last'.out[1].summary) # 0)
      /\ (Compresses /\ Len(last'.out[1].summary) = 0) => digest' = digest
      /\ Compresses => UNCHANGED <<skillsFile, proposals, history, backups>> ]_vars

\* a compression left its summary in a digest that was empty, after a skill
\* proposal was applied and a session was captured
C30_Witness ==
  /\ last.op = "compress"
  /\ Len(CompressionResult.summary) # 0
  /\ DigestBefore = NoDigest
  /\ Len(digest.summaries) = 1
  /\ digest.summaries[1].summary = CompressionResult.summary
  /\ Len(history) > 0
  /\ skillsFile.exists
  /\ sessions > 0

\* the processes that passed the already-applied check of apply_proposal for
\* the proposal id
Passed(id) ==
  { p \in Procs : procs[p].op = "apply" /\ procs[p].proposal # None
                  /\ procs[p].proposal.id = id }

\* no invocation started while another one was running
Serialized == \A p \in Procs : ~procs[p].overlapped

\* C31: nothing turns back an Apply that has passed the already-applied check:
\* it returns success and appends its own history entry, whatever the other
\* process did meanwhile; one proposal id gets two history entries only when
\* the invocations ran next to each other.
C31_RacingApplies ==
  \A id \in ProposalIds :
    LET entries == { h \in 1..Len(history) : history[h].proposal_id = id }
    IN /\ \A p \in Passed(id) : procs[p].at = "done" => procs[p].result.ok
       /\ Cardinality(entries) =
            Cardinality({ p \in Passed(id) : procs[p].at \in {"status", "rewrite", "done"} })
       /\ Cardinality(entries) >= 2 => ~Serialized

\* two processes applied the one pending proposal: both returned success, the
\* collection holds its skill record twice and the history two entries for it
C31_Witness ==
  /\ Len(proposals) = 1
  /\ \A p \in Procs : /\ procs[p].at = "done" /\ procs[p].op = "apply"
                      /\ procs[p].result.ok /\ procs[p].result.msg = "Added skill"
                      /\ procs[p].proposal.id = proposals[1].id
  /\ skillsFile = File(<<proposals[1].data, proposals[1].data>>)
  /\ Len(history) = 2
  /\ \A h \in 1..2 : history[h].proposal_id = proposals[1].id /\ history[h].type = "skill_add"

\* the skill of history entry h belongs to a proposal that is marked applied,
\* and no record of the skill collection has its skill_id
LostAt(h) ==
  /\ history[h].type = "skill_add"
  /\ \E k \in 1..Len(proposals) :
       /\ proposals[k].id = history[h].proposal_id
       /\ proposals[k].status = "applied"
       /\ proposals[k].data.skill_id = history[h].skill_id
  /\ \A i \in 1..Len(skillsFile.lines) : skillsFile.lines[i].skill_id # history[h].skill_id

\* process p is an Add that has written the list it held, and skill_id is not
\* in that list
WroteWithout(p, skill_id) ==
  /\ procs[p].op = "add" /\ procs[p].at = "done" /\ procs[p].held # None
  /\ \A i \in 1..Len(procs[p].held.lines) : procs[p].held.lines[i].skill_id # skill_id

\* C32: the skill of an applied proposal with a history entry is missing from
\* the collection only after an Add has written back a list it read before
\* the skill was appended, and the record an Add has saved is missing only
\* after another Add did so; neither happens when the invocations are
\* serialized.
C32_LastWriterWins ==
  /\ \A h \in 1..Len(history) :
       LostAt(h) => /\ ~Serialized
                    /\ \E p \in Procs : WroteWithout(p, history[h].skill_id)
  /\ \A p \in Procs :
       (/\ procs[p].op = "add" /\ procs[p].at = "done" /\ procs[p].held # None
        /\ \A i \in 1..Len(skillsFile.lines) :
             skillsFile.lines[i].skill_id # procs[p].skill.skill_id)
         => /\ ~Serialized
            /\ \E q \in Procs \ {p} : WroteWithout(q, procs[p].skill.skill_id)

\* an Apply and an Add have both returned success, the proposal is applied and
\* has its history entry, and the collection holds the Add's record only
C32_Witness ==
  /\ \A p \in Procs : procs[p].at = "done" /\ procs[p].result.ok
  /\ \E p \in Procs : procs[p].op = "apply"
  /\ \E p \in Procs : procs[p].op = "add" /\ skillsFile = File(<<procs[p].skill>>)
  /\ Len(history) = 1 /\ LostAt(1)

\* C33: a Rollback that succeeds appends one history entry and changes no
\* other; the entry is of type rollback, names the proposal id of the entry
\* it reverted and the backup the collection was restored from, and has no
\* backup reference of its own, so a Rollback cannot start from it.
C33_RollbackEntry ==
  [][(Rollback /\ last'.ok) =>
       LET n == Len(history)
           e == history'[n + 1]
       IN /\ Len(history') = n + 1
          /\ SubSeq(history', 1, n) = history
          /\ e.type = "rollback"
          /\ Get(e, "rolled_back") = history[n].proposal_id
          /\ Get(e, "restored_from") = history[n].backup
          /\ skillsFile' = File(backups[Get(e, "restored_from")])
          /\ "backup" \notin DOMAIN e
          /\ ~Restorable']_vars

\* a Rollback has just succeeded: its entry is the last of the history and
\* names the proposal of the skill_add entry before it and that entry's backup
C33_Witness ==
  /\ last.op = "rollback" /\ last.ok /\ last.msg = "Rolled back"
  /\ Len(history) >= 2
  /\ history[Len(history)].type = "rollback"
  /\ history[Len(history)].rolled_back = history[Len(history) - 1].proposal_id
  /\ history[Len(history)].restored_from = history[Len(history) - 1].backup
  /\ "backup" \notin DOMAIN history[Len(history)]
  /\ ~Restorable

\* C34: a Rollback leaves the proposal collection as it is; a proposal that
\* is applied stays applied in every step, and every later non-dry-run Apply
\* of it fails with "already applied" and changes no store, also when a
\* Rollback has removed its skill from the collection.
C34_RollbackKeepsStatus ==
  [][/\ Rollback => proposals' = proposals
     /\ \A k \in 1..Len(proposals) :
          proposals[k].status = "applied" =>
            /\ Len(proposals') >= k /\ proposals'[k].status = "applied"
            /\ AppliesNow(proposals[k]) =>
                 (~last'.ok /\ last'.msg = "already applied" /\ StoresUnchanged)]_vars

\* a skill_add proposal was applied and rolled back, and an Apply of it has
\* just failed with "already applied" while its skill is not in the collection
C34_Witness ==
  /\ last.op = "apply" /\ ~last.dry /\ ~last.ok /\ last.msg = "already applied"
  /\ \E k \in 1..Len(proposals) :
       /\ proposals[k].id = last.id
       /\ proposals[k].type = "skill_add" /\ proposals[k].status = "applied"
       /\ \A i \in 1..Len(skillsFile.lines) :
            skillsFile.lines[i].skill_id # proposals[k].data.skill_id
       /\ \E h \in 1..Len(history) :
            history[h].type = "rollback" /\ history[h].rolled_back = proposals[k].id

\* this step is a non-dry-run Apply that added a skill
AddsSkill ==
  /\ last'.op = "apply" /\ last'.ok /\ last'.msg = "Added skill"
  /\ \E id \in ProposalIds : Apply(id, FALSE)

\* C35: a skill_add Apply on an existing collection leaves a snapshot of the
\* whole collection as it was before the Apply, named by its history entry; no
\* step that leaves the history alone changes a snapshot; a Rollback that
\* succeeds makes the collection equal to the snapshot of the last history
\* entry, so whatever Add created or merged after that Apply is gone together
\* with the applied skill.
C35_RollbackRestoresSnapshot ==
  [][/\ (AddsSkill /\ skillsFile.exists) =>
          LET e == history'[Len(history')]
          IN /\ e.type = "skill_add"
             /\ e.backup \in DOMAIN backups'
             /\ backups'[e.backup] = skillsFile.lines
     /\ history' = history => backups' = backups
     /\ (Rollback /\ last'.ok) =>
          /\ history[Len(history)].type = "skill_add"
          /\ skillsFile' = File(backups[history[Len(history)].backup])]_vars

\* a Rollback has just succeeded: before it the collection held the applied
\* skill and a record that an Add had merged after the Apply, and now it holds
\* neither the skill nor the merge
C35_Witness ==
  /\ last.op = "rollback" /\ last.ok
  /\ Len(pre.lines) = 2 /\ Len(skillsFile.lines) = 1
  /\ pre.lines[2].skill_id[1] = "skill_auto"
  /\ pre.lines[1].skill_id = skillsFile.lines[1].skill_id
  /\ pre.lines[1].times_used = 2
  /\ skillsFile.lines[1].times_used = 1

\* C36: a non-dry-run Apply of a pending skill_add proposal while the skill
\* collection file does not exist succeeds and creates the collection with the
\* skill as its only record, takes no backup and writes a history entry whose
\* backup reference is null; a Rollback right after it fails with "No backup
\* available for rollback" and leaves the skill in place.
C36_ApplyWithoutCollection ==
  [][/\ \A k \in 1..Len(proposals) :
          (/\ proposals[k].type = "skill_add" /\ proposals[k].status = "pending"
           /\ ~skillsFile.exists
           /\ AppliesNow(proposals[k])) =>
            /\ last'.ok
            /\ skillsFile' = File(<<proposals[k].data>>)
            /\ backups' = backups
            /\ Len(history') = Len(history) + 1
            /\ history'[Len(history')].proposal_id = proposals[k].id
            /\ history'[Len(history')].backup = None
     /\ (/\ last.op = "apply" /\ last.ok /\ last.msg = "Added skill" /\ ~pre.exists
         /\ Rollback) =>
          /\ ~last'.ok
          /\ last'.msg = "No backup available for rollback"
          /\ StoresUnchanged]_vars

\* C37: while the collection holds the skill record of an applied skill_add
\* proposal for a pattern, a --propose run on an analysis that lists the
\* pattern emits no skill_add proposal for it.
C37_AppliedSkillCoversPattern ==
  [][\A analysis \in SkillAnalyses :
       Proposes(analysis) =>
         \A k \in 1..Len(proposals), m \in 1..Len(analysis.common_missed_patterns) :
           LET pattern == analysis.common_missed_patterns[m][1]
           IN (/\ proposals[k].type = "skill_add"
               /\ proposals[k].status = "applied"
               /\ proposals[k].reason[2] = pattern
               /\ \E i \in 1..Len(skillsFile.lines) :
                    skillsFile.lines[i].skill_id = proposals[k].data.skill_id)
                => ~\E j \in 1..Len(last'.out) :
                      /\ last'.out[j].type = "skill_add"
                      /\ last'.out[j].reason[2] = pattern]_vars

\* a --propose run on the analysis that lists 'auth' three times has emitted
\* no skill_add proposal while the only record of the collection is the skill
\* of the applied proposal for 'auth'
C37_Witness ==
  /\ last.op = "propose"
  /\ \A j \in 1..Len(last.out) : last.out[j].type # "skill_add"
  /\ \E k \in 1..Len(proposals) :
       /\ proposals[k].type = "skill_add" /\ proposals[k].status = "applied"
       /\ proposals[k].reason[2] = s_auth
       /\ skillsFile = File(<<proposals[k].data>>)

\* this step is a non-dry-run `--apply-all`
AppliesAll ==
  /\ last'.op = "apply_all" /\ ~last'.dry
  /\ \E ts \in Readings(Len(to_apply(proposals)), now) : ApplyAll(FALSE, ts)

\* C38: a non-dry-run apply-all attempts, in order, every proposal that is
\* pending when it starts and is neither manual_review nor info; afterwards
\* no skill_add, routing_update or threshold_adjust proposal is pending, and
\* each proposal it attempted has exactly one history entry and, if it is a
\* skill_add, exactly one record in the skill collection.
C38_ApplyAll ==
  [][AppliesAll =>
       LET pending == to_apply(proposals)
       IN /\ Len(last'.out) = Len(pending)
          /\ \A k \in 1..Len(pending) : last'.out[k].id = pending[k].id
          /\ \A k \in 1..Len(proposals') :
               proposals'[k].type \in {"skill_add", "routing_update", "threshold_adjust"}
                 => proposals'[k].status # "pending"
          /\ \A k \in 1..Len(pending) :
               /\ Cardinality({ h \in 1..Len(history') :
                                  Get(history'[h], "proposal_id") = pending[k].id }) = 1
               /\ pending[k].type = "skill_add" =>
                    Cardinality({ i \in 1..Len(skillsFile'.lines) :
                                    skillsFile'.lines[i].skill_id = pending[k].data.skill_id }) = 1]_vars

\* C39: the status update of a successful non-dry-run Apply of a proposal
\* changes the status and updated_at of that proposal and nothing else: the
\* proposal keeps its other fields, every other proposal of the collection
\* is unchanged, and so are the number and the order of the proposals.
C39_StatusUpdateFrame ==
  [][\A k \in 1..Len(proposals) :
       (/\ proposals[k].type \in {"skill_add", "routing_update", "threshold_adjust"}
        /\ proposals[k].status = "pending"
        /\ AppliesNow(proposals[k])
        /\ last'.ok) =>
         /\ Len(proposals') = Len(proposals)
         /\ DOMAIN proposals'[k] = DOMAIN proposals[k] \cup {"updated_at"}
         /\ \A f \in DOMAIN proposals[k] \ {"status", "updated_at"} :
              proposals'[k][f] = proposals[k][f]
         /\ \A j \in 1..Len(proposals) : j # k => proposals'[j] = proposals[j]]_vars

\* C40: in a result that carries the counts, compressed_count is at most
\* original_count, and when compression happened it is the number of records
\* of head, plus one for the summary, plus the number of records of tail.
C40_CompressedCount ==
  (last.op = "compress" /\ "original_count" \in DOMAIN CompressionResult) =>
    /\ CompressionResult.compressed_count <= CompressionResult.original_count
    /\ Compressed =>
         CompressionResult.compressed_count =
           Len(CompressionResult.head) + 1 + Len(CompressionResult.tail)
====
